---- MODULE Spec2Model ----
(***************************************************************************)
(* Crawl execution engine of hydra-frog-os: the API's crawl lifecycle      *)
(* (runNow, runScheduled, cancel), the BullMQ job queue, and the crawler   *)
(* worker (processJob, runCrawl and its post-processing) over one shared   *)
(* relational store.  Every await of the TypeScript source is one step.    *)
(***************************************************************************)
EXTENDS Integers, Sequences, FiniteSets, Bags, TLC

(***************************************************************************)
(* Bounds of the model.                                                    *)
(***************************************************************************)
\* CrawlRun rows ever created.
MaxRuns == 2
\* API requests made in one behaviour (they may overlap).
MaxApi == 2
\* Database / queue calls that throw in one behaviour.
MaxFaults == 1
\* cron invocations of the scheduler that may be in flight at once
MaxTicks == 2
\* Copies of the same href on the start page of the "fan" site.
FanLinks == 21
\* The small maxPages and maxDepth a project is configured with.
SmallMaxPages == 2
SmallMaxDepth == 1

(***************************************************************************)
(* Program constants.                                                      *)
(***************************************************************************)
\* index.ts:28  WORKER_CONCURRENCY default
WORKER_CONCURRENCY == 1
\* queue defaultJobOptions.attempts
JOB_ATTEMPTS == 3
\* crawl-runner.ts:154
CANCEL_CHECK_INTERVAL == 20
\* types.ts:17-18 DEFAULT_CRAWL_SETTINGS
DEFAULT_MAX_PAGES == 1000
DEFAULT_MAX_DEPTH == 5
DEFAULT_THROTTLE_MS == 100
\* a nullable number that is null (statusCode, h1Count, wordCount)
NullInt == -1

\* a nullable string / object that is null
NULL == [null |-> TRUE]

(***************************************************************************)
(* Small helpers on sequences and sets.                                    *)
(***************************************************************************)
Range(s) == {s[i] : i \in DOMAIN s}

Last(s) == s[Len(s)]

Front(s) == SubSeq(s, 1, Len(s) - 1)

(***************************************************************************)
(* URLs.  A URL string is modelled by its parsed components, which is what *)
(* `new URL(raw)` gives; `bad` marks a string that new URL() rejects.      *)
(*   host      sequence of labels, hostUpper: written with capital letters *)
(*   path      sequence of segments: "/" is <<"">>, "/a/" is <<"a", "">>   *)
(*   query     sequence of <<key, value>>                                  *)
(***************************************************************************)
Url(scheme, host, port, path, query, hash) ==
  [scheme |-> scheme, host |-> host, hostUpper |-> FALSE, port |-> port,
   path |-> path, query |-> query, hash |-> hash]

BadUrl == [bad |-> TRUE]

\* String.prototype.toLowerCase on query-parameter names
ToLowerCase(k) ==
  CASE k = "UTM_SOURCE" -> "utm_source"
    [] k = "B" -> "b"
    [] OTHER -> k

\* a[0].localeCompare(b[0]) < 0 on the parameter names of the model
KeyRank(k) ==
  CASE k = "a" -> 1
    [] k = "b" -> 2
    [] k = "B" -> 3
    [] k = "fbclid" -> 4
    [] k = "utm_source" -> 5
    [] k = "UTM_SOURCE" -> 6
    [] OTHER -> 7

RECURSIVE InsertSorted(_, _)
\* stable insertion of one [key, value] pair behind the pairs not greater
InsertSorted(sorted, kv) ==
  IF sorted = <<>> THEN <<kv>>
  ELSE IF KeyRank(kv[1]) < KeyRank(Head(sorted)[1])
       THEN <<kv>> \o sorted
       ELSE <<Head(sorted)>> \o InsertSorted(Tail(sorted), kv)

\* variant: the parameters stay in the order of the URL
KeepOrder(ps) == ps

RECURSIVE SortParams(_)
\* filteredParams.sort((a, b) => a[0].localeCompare(b[0])), a stable sort
SortParams(ps) ==
  IF ps = <<>> THEN <<>>
  ELSE InsertSorted(SortParams(Front(ps)), Last(ps))

RECURSIVE FilterParams(_, _)
\* keep the pairs whose lower-cased key is not in the ignore set
FilterParams(ps, ignoreSet) ==
  IF ps = <<>> THEN <<>>
  ELSE IF ToLowerCase(Head(ps)[1]) \in ignoreSet
       THEN FilterParams(Tail(ps), ignoreSet)
       ELSE <<Head(ps)>> \o FilterParams(Tail(ps), ignoreSet)

\* url.toString().endsWith('/') once hash is '' : the string ends with the
\* query when there is one, with the path otherwise
EndsWithSlash(u) == u.query = <<>> /\ Last(u.path) = ""

\* variant: every scheme is crawled
AnyProtocol(url) == TRUE

\* url.protocol is 'http:' or 'https:'
HttpProtocol(url) == url.scheme \in {"http:", "https:"}

normalizeUrl(rawUrl, ignoreParams) ==
  IF "bad" \in DOMAIN rawUrl THEN NULL
  ELSE IF ~HttpProtocol(rawUrl) THEN NULL
  ELSE
    LET ignoreSet == {ToLowerCase(p) : p \in Range(ignoreParams)}
        defaultPort == \/ rawUrl.scheme = "http:" /\ rawUrl.port = "80"
                       \/ rawUrl.scheme = "https:" /\ rawUrl.port = "443"
        url == [rawUrl EXCEPT !.hostUpper = FALSE,
                              !.port = IF defaultPort THEN "" ELSE @,
                              !.hash = "",
                              !.query = SortParams(FilterParams(@, ignoreSet))]
    IN IF url.path # <<"">> /\ EndsWithSlash(url)
       THEN [url EXCEPT !.path = Front(@)]
       ELSE url

\* new URL(link, baseUrl): the hrefs of the model are absolute, so the base
\* is used only when the href is unparseable on its own
resolveAndNormalize(link, baseUrl, ignoreParams) ==
  normalizeUrl(link, ignoreParams)

RECURSIVE IsSuffix(_, _)
IsSuffix(s, t) ==
  IF Len(s) > Len(t) THEN FALSE
  ELSE IF Len(s) = Len(t) THEN s = t
  ELSE IsSuffix(s, Tail(t))

isInternalUrl(candidateUrl, baseDomain, includeSubdomains) ==
  IF "bad" \in DOMAIN candidateUrl THEN FALSE
  ELSE \/ candidateUrl.host = baseDomain
       \/ /\ includeSubdomains
          /\ Len(candidateUrl.host) > Len(baseDomain)
          /\ IsSuffix(baseDomain, candidateUrl.host)

(***************************************************************************)
(* Strings of page fields.  A string is its trimmed text, the length of    *)
(* that text, whether white space surrounds it (pad) and whether it is     *)
(* written in capitals (upper); NULL is the null of a nullable field.      *)
(***************************************************************************)
Str(txt, len) == [txt |-> txt, len |-> len, pad |-> FALSE, upper |-> FALSE]

EmptyStr == Str("", 0)

\* String.prototype.trim
Trim(s) == [s EXCEPT !.pad = FALSE]

\* String.prototype.toLowerCase
StrLower(s) == [s EXCEPT !.upper = FALSE]

\* s?.trim() ?? ''
TrimOrEmpty(s) == IF s = NULL THEN EmptyStr ELSE Trim(s)

\* robotsMeta.toLowerCase().includes('noindex')
IncludesNoindex(s) == StrLower(s).txt \in {"noindex", "noindex, nofollow"}

(***************************************************************************)
(* Rule evaluator (packages/shared/src/issues).                            *)
(***************************************************************************)
RULES ==
  << "STATUS_4XX_5XX", "STATUS_3XX_REDIRECT", "REDIRECT_CHAIN_LONG",
     "MISSING_TITLE", "TITLE_TOO_LONG", "TITLE_TOO_SHORT",
     "MISSING_META_DESCRIPTION", "H1_MISSING", "H1_MULTIPLE",
     "CANONICAL_MISSING", "ROBOTS_NOINDEX", "THIN_CONTENT",
     "IMAGES_MISSING_ALT" >>

RuleSeverity(type) ==
  CASE type = "STATUS_4XX_5XX" -> "CRITICAL"
    [] type \in {"REDIRECT_CHAIN_LONG", "MISSING_TITLE", "H1_MISSING"} -> "HIGH"
    [] type \in {"STATUS_3XX_REDIRECT", "MISSING_META_DESCRIPTION",
                 "ROBOTS_NOINDEX"} -> "MEDIUM"
    [] OTHER -> "LOW"

\* rule.evaluate(page, extra).triggered
RuleTriggered(type, page, extra) ==
  LET statusCode == IF page.statusCode = NullInt THEN 0 ELSE page.statusCode
      chainLength == IF "redirectChainJson" \in DOMAIN page
                     THEN Len(page.redirectChainJson) ELSE 0
      title == TrimOrEmpty(page.title)
      h1Count == IF page.h1Count = NullInt THEN 0 ELSE page.h1Count
  IN CASE type = "STATUS_4XX_5XX" -> statusCode >= 400
       [] type = "STATUS_3XX_REDIRECT" -> statusCode >= 300 /\ statusCode < 400
       [] type = "REDIRECT_CHAIN_LONG" -> chainLength >= 3
       [] type = "MISSING_TITLE" -> title.len = 0
       [] type = "TITLE_TOO_LONG" -> title.len > 60
       [] type = "TITLE_TOO_SHORT" -> title.len > 0 /\ title.len < 10
       [] type = "MISSING_META_DESCRIPTION" ->
            TrimOrEmpty(page.metaDescription).len = 0
       [] type = "H1_MISSING" -> h1Count = 0
       [] type = "H1_MULTIPLE" -> h1Count > 1
       [] type = "CANONICAL_MISSING" -> TrimOrEmpty(page.canonical).len = 0
       [] type = "ROBOTS_NOINDEX" ->
            page.robotsMeta # NULL /\ IncludesNoindex(page.robotsMeta)
       [] type = "THIN_CONTENT" ->
            page.wordCount # NullInt /\ page.wordCount < 150
       [] type = "IMAGES_MISSING_ALT" -> extra.imagesMissingAlt > 0

\* rule.evaluate(page, extra).evidence
RuleEvidence(type, page, extra) ==
  LET statusCode == IF page.statusCode = NullInt THEN 0 ELSE page.statusCode
      chainLength == IF "redirectChainJson" \in DOMAIN page
                     THEN Len(page.redirectChainJson) ELSE 0
      title == TrimOrEmpty(page.title)
      h1Count == IF page.h1Count = NullInt THEN 0 ELSE page.h1Count
  IN CASE type \in {"STATUS_4XX_5XX", "STATUS_3XX_REDIRECT"} ->
            [statusCode |-> statusCode]
       [] type = "REDIRECT_CHAIN_LONG" -> [redirectChainLength |-> chainLength]
       [] type = "MISSING_TITLE" -> [title |-> page.title]
       [] type \in {"TITLE_TOO_LONG", "TITLE_TOO_SHORT"} ->
            [titleLength |-> title.len, title |-> title]
       [] type = "MISSING_META_DESCRIPTION" ->
            [metaDescription |-> page.metaDescription]
       [] type \in {"H1_MISSING", "H1_MULTIPLE"} -> [h1Count |-> h1Count]
       [] type = "CANONICAL_MISSING" -> [canonical |-> page.canonical]
       [] type = "ROBOTS_NOINDEX" -> [robotsMeta |-> page.robotsMeta]
       [] type = "THIN_CONTENT" -> [wordCount |-> page.wordCount]
       [] type = "IMAGES_MISSING_ALT" ->
            [imagesMissingAlt |-> extra.imagesMissingAlt]

RECURSIVE EvaluateRules(_, _, _)
EvaluateRules(rules, page, extra) ==
  IF rules = <<>> THEN <<>>
  ELSE (IF RuleTriggered(Head(rules), page, extra)
        THEN << [type |-> Head(rules), severity |-> RuleSeverity(Head(rules)),
                 evidenceJson |-> RuleEvidence(Head(rules), page, extra)] >>
        ELSE <<>>)
       \o EvaluateRules(Tail(rules), page, extra)

\* the drafts, in rule order
evaluatePageIssues(page, extra) == EvaluateRules(RULES, page, extra)

(***************************************************************************)
(* Crawl settings (workers/crawler/src/types.ts).                          *)
(***************************************************************************)
DEFAULT_IGNORE_PARAMS ==
  << "utm_source", "utm_medium", "utm_campaign", "utm_term", "utm_content",
     "gclid", "fbclid" >>

\* settingsJson is a JSON object: a function from the keys it has
buildCrawlSettings(settingsJson) ==
  LET has(k) == k \in DOMAIN settingsJson
  IN [maxPages |-> IF has("maxPages") THEN settingsJson.maxPages
                   ELSE DEFAULT_MAX_PAGES,
      maxDepth |-> IF has("maxDepth") THEN settingsJson.maxDepth
                   ELSE DEFAULT_MAX_DEPTH,
      ignoreParams |-> IF has("ignoreParams") THEN settingsJson.ignoreParams
                       ELSE DEFAULT_IGNORE_PARAMS,
      throttleMs |-> IF has("throttleMs") THEN settingsJson.throttleMs
                     ELSE DEFAULT_THROTTLE_MS,
      includeSubdomains |-> IF has("includeSubdomains")
                            THEN settingsJson.includeSubdomains ELSE FALSE]

(***************************************************************************)
(* The sites that are crawled.  A site is what the network answers for a   *)
(* normalized URL; it does not change during a behaviour.                  *)
(***************************************************************************)
BaseDomain == <<"a", "test">>

RootUrl == Url("https:", BaseDomain, "", <<"">>, <<>>, "")

PageAUrl == Url("https:", BaseDomain, "", <<"a">>, <<>>, "")

ExternalUrl == Url("https:", <<"b", "test">>, "", <<"">>, <<>>, "")

\* the i-th href of the start page of the "fan" site: the same target written
\* with a fragment, with a tracking parameter, with a trailing slash, plainly
FanHref(i) ==
  CASE i = 1 -> [PageAUrl EXCEPT !.hash = "top"]
    [] i = 2 -> [PageAUrl EXCEPT !.query = << <<"utm_source", "x">> >>]
    [] i = 3 -> [PageAUrl EXCEPT !.path = <<"a", "">>, !.hostUpper = TRUE]
    [] i = 4 -> ExternalUrl
    [] OTHER -> PageAUrl

\* crawl-runner.ts fetchAndParsePage as it stands: a fixed answer, no links
PlaceholderResult(url) ==
  [url |-> url, statusCode |-> 200, contentType |-> "text/html",
   title |-> NULL, metaDescription |-> NULL, h1Count |-> NullInt,
   canonical |-> NULL, robotsMeta |-> NULL, wordCount |-> NullInt,
   links |-> <<>>, imagesMissingAlt |-> 0, error |-> NULL, html |-> ""]

\* a well-formed HTML page with the given title and links
HtmlResult(url, title, links) ==
  [PlaceholderResult(url) EXCEPT
     !.title = title, !.metaDescription = Str("about", 5), !.h1Count = 1,
     !.canonical = Str("self", 4), !.wordCount = 200, !.links = links,
     !.html = "layout-1"]

Scenarios == {"single", "fan"}

\* a page of the site by its one-segment path
SiteUrl(name) == Url("https:", BaseDomain, "", <<name>>, <<>>, "")

\* the title "home" as the pages of the "tree" site write it
HomeTitle == Str("home", 4)

\* the "tree" site: the start page and seven pages below it, at depths
\*   0 /    1 /a /b    2 /c /d /e /f    3 /g (which answers 404)
\* six of them carry the same title up to case and surrounding white space
TreePage(url) ==
  CASE url = RootUrl ->
         HtmlResult(url, HomeTitle,
                    << SiteUrl("a"), SiteUrl("b"),
                       [SiteUrl("a") EXCEPT !.hash = "top"], ExternalUrl,
                       RootUrl >>)
    [] url = SiteUrl("a") ->
         HtmlResult(url, [HomeTitle EXCEPT !.pad = TRUE, !.upper = TRUE],
                    << SiteUrl("c"), SiteUrl("d") >>)
    [] url = SiteUrl("b") ->
         HtmlResult(url, [HomeTitle EXCEPT !.upper = TRUE],
                    << SiteUrl("c"), SiteUrl("e"), SiteUrl("f") >>)
    [] url = SiteUrl("c") -> HtmlResult(url, HomeTitle, << SiteUrl("g") >>)
    [] url = SiteUrl("d") -> HtmlResult(url, HomeTitle, <<>>)
    [] url = SiteUrl("e") -> HtmlResult(url, HomeTitle, << RootUrl >>)
    [] url = SiteUrl("f") -> HtmlResult(url, Str("about us page", 13), <<>>)
    [] OTHER -> [PlaceholderResult(url) EXCEPT !.statusCode = 404]

\* a fetch that failed (DNS, connection, timeout, TLS, malformed response)
ErrorResult(url) ==
  [PlaceholderResult(url) EXCEPT !.statusCode = NullInt, !.contentType = "",
                                 !.error = Str("timeout", 7)]

\* the "flaky" site: the start page links to /a, whose fetch fails, and to /b
FlakyPage(url) ==
  CASE url = RootUrl ->
         HtmlResult(url, Str("start page", 10), << SiteUrl("a"), SiteUrl("b") >>)
    [] url = SiteUrl("a") -> ErrorResult(url)
    [] url = SiteUrl("b") -> HtmlResult(url, Str("second page", 11), <<>>)
    [] OTHER -> [PlaceholderResult(url) EXCEPT !.statusCode = 404]

\* the start page and /a of the "fan" site
FanPage(url) ==
  IF url = RootUrl
  THEN HtmlResult(url, Str("home page of a", 14),
                  [i \in 1..FanLinks |-> FanHref(i)])
  ELSE IF url = PageAUrl
       THEN HtmlResult(url, [Str("home page of a", 14) EXCEPT
                               !.pad = TRUE, !.upper = TRUE],
                       <<RootUrl>>)
       ELSE [PlaceholderResult(url) EXCEPT !.statusCode = 404]

\* the "home" site: one page titled "Home" with one h1 "Home", a meta
\* description "x", a canonical link to itself and no outbound links; its
\* text is the one word of the h1
HomePage(url) ==
  IF url = RootUrl
  THEN [HtmlResult(url, [Str("Home", 4) EXCEPT !.upper = TRUE], <<>>) EXCEPT
          !.metaDescription = Str("x", 1),
          !.canonical = Str("https://a.test/", 15),
          !.wordCount = 1]
  ELSE [PlaceholderResult(url) EXCEPT !.statusCode = 404]

\* the answer of the site of scenario sc for a normalized URL
fetchAndParsePage(sc, url) ==
  CASE sc = "fan" -> FanPage(url)
    [] sc = "tree" -> TreePage(url)
    [] sc = "flaky" -> FlakyPage(url)
    [] sc = "home" -> HomePage(url)
    [] OTHER -> PlaceholderResult(url)

ProjectId == "p1"

\* the Project row of a scenario (project.service.ts DEFAULT_SETTINGS)
ProjectOf(sc) ==
  [id |-> ProjectId, startUrl |-> RootUrl, domain |-> BaseDomain,
   settingsJson |-> [maxDepth |-> 3, maxPages |-> 1000, respectRobots |-> TRUE,
                     crawlDelay |-> 100, userAgent |-> "HydraFrogBot/1.0"]]

\* computeTemplateSignature(html).signatureHash: a function of the structure
computePageTemplateSignature(result) ==
  IF result.html = "" \/ result.contentType # "text/html" THEN ""
  ELSE result.html

(***************************************************************************)
(* State.                                                                  *)
(***************************************************************************)
VARIABLES
  scenario,    \* which site the project points at
  project,     \* the Project row
  crawlRuns,   \* CrawlRun table: sequence in createdAt order, id = index
  pages,       \* Page table: set of rows
  issues,      \* Issue table: set of rows
  links,       \* Link table: set of rows
  templates,   \* Template table: set of rows
  idSeq,       \* per run, the number of row ids handed out (cuid())
  jobs,        \* BullMQ queue "crawl-jobs": jobId (= crawlRunId) -> job
  api,         \* API requests in flight
  wk,          \* crawler workers: position and locals of processJob
  script,      \* the schema verification script: position, its test template
  faults,      \* database / queue calls that have thrown so far
  audit,       \* per run, history kept for stating the properties
  crawlSchedules,  \* CrawlSchedule table: set of rows, one per project
  scheduler    \* SchedulerService: position and locals of the cron tick

vars == << scenario, project, crawlRuns, pages, issues, links, templates,
           idSeq, jobs, api, wk, script, faults, audit, crawlSchedules,
           scheduler >>

RunIds == 1..MaxRuns

ApiIds == 1..MaxApi

Workers == 1..WORKER_CONCURRENCY

TerminalStatus == {"DONE", "FAILED", "CANCELED"}

NoJob == [state |-> "none", attemptsMade |-> 0]

ApiIdle ==
  [op |-> "idle", pc |-> "idle", projectId |-> "", run |-> 0, status |-> "",
   settingsJson |-> <<>>]

\* a request that was answered
ApiDone == [ApiIdle EXCEPT !.pc = "done"]

\* request a is the next to arrive: requests are numbered in arrival order
Arrives(a) ==
  /\ api[a].pc = "idle"
  /\ \A b \in 1..(a - 1) : api[b].pc # "idle"

WorkerIdle ==
  [pc |-> "idle", run |-> 0, projectId |-> "", settings |-> <<>>,
   queue |-> <<>>, visited |-> {}, pagesProcessed |-> 0,
   cancelCheckCounter |-> 0, cur |-> <<>>, result |-> <<>>, pageId |-> <<>>,
   drafts |-> <<>>, error |-> "",
   \* history: iterations begun, a call threw during this execution, the
   \* totals when the run was set RUNNING, the status when the loop ended
   iters |-> 0, faulted |-> FALSE, totalsAtStart |-> <<>>, endStatus |-> "",
   \* history: the items pushed to the queue and the URLs fetched, in order
   admitted |-> <<>>, fetched |-> <<>>]

NoScript == [pc |-> "idle", template |-> <<>>]

\* the invocations of handleScheduledCrawls that may overlap
Ticks == 1..MaxTicks

\* no cron tick is running: isRunning = false, every invocation has returned;
\* skipped is history: an invocation found isRunning and returned at once
SchedulerIdle ==
  [isRunning |-> FALSE, skipped |-> FALSE,
   tick |-> [t \in Ticks |-> [pc |-> "idle", frequency |-> ""]]]

NoAudit ==
  [canceledQueued |-> FALSE, canceledInLoop |-> FALSE, pagesAtCancel |-> {},
   itersSinceCancel |-> -1, pagesSinceCancel |-> -1, cleanDoneAt |-> 0,
   \* the ids of the pages whose issue.createMany threw
   issuesFailed |-> {}]

Init ==
  /\ scenario \in Scenarios
  /\ project = ProjectOf(scenario)
  /\ crawlRuns = <<>>
  /\ pages = {}
  /\ issues = {}
  /\ links = {}
  /\ templates = {}
  /\ idSeq = [r \in RunIds |-> 0]
  /\ jobs = [r \in RunIds |-> NoJob]
  /\ api = [a \in ApiIds |-> ApiIdle]
  /\ wk = [w \in Workers |-> WorkerIdle]
  /\ script = NoScript
  /\ crawlSchedules = {}
  /\ scheduler = SchedulerIdle
  /\ faults = 0
  /\ audit = [r \in RunIds |-> NoAudit]

(***************************************************************************)
(* Table helpers.                                                          *)
(***************************************************************************)
\* variant: the run scope matches no row, so the wipe deletes nothing and the
\* unique index sees no earlier row
RunRowsNoMatch(tbl, r) == {x \in tbl : FALSE}

\* the rows of a table that `where: { crawlRunId }` selects
RunRows(tbl, r) == {x \in tbl : x.crawlRunId = r}

PagesOf(r) == RunRows(pages, r)

IssuesOf(r) == RunRows(issues, r)

LinksOf(r) == RunRows(links, r)

TemplatesOf(r) == RunRows(templates, r)

\* a null pageId / fromPageId / templateId
NoId == <<>>

\* findFirst({projectId, status in [QUEUED, RUNNING]})
ActiveRuns(projectId) ==
  {i \in DOMAIN crawlRuns :
     /\ crawlRuns[i].projectId = projectId
     /\ crawlRuns[i].status \in {"QUEUED", "RUNNING"}}

SetMax(S) == CHOOSE x \in S : \A y \in S : y <= x

\* the worker, if any, that is inside the BFS loop of run r
LoopPcs == {"cancelCheck", "fetch", "createPage", "createIssues", "throttle"}

InLoop(r) == \E w \in Workers : wk[w].run = r /\ wk[w].pc \in LoopPcs

(***************************************************************************)
(* API: CrawlService.runNow and CrawlService.runScheduled.                 *)
(***************************************************************************)
\* getProjectWithAccess / findUnique(project), then the concurrent-run check
RunCheck(a, op) ==
  /\ Arrives(a)
  /\ Len(crawlRuns) < MaxRuns
  /\ IF ActiveRuns(project.id) # {}
     THEN api' = api          \* ConflictException (runNow), null (runScheduled)
     ELSE api' = [api EXCEPT ![a] = [ApiIdle EXCEPT
                    !.op = op, !.pc = "create",
                    !.settingsJson = project.settingsJson]]
  /\ UNCHANGED << crawlSchedules, scheduler >>
  /\ UNCHANGED << scenario, project, crawlRuns, pages, issues, links,
                  templates, idSeq, jobs, wk, script, faults, audit >>

RunNowCheck(a) == RunCheck(a, "runNow")

RunScheduledCheck(a) == RunCheck(a, "runScheduled")

\* the CrawlRun row that runNow / runScheduled create
QueuedRun(id, settingsJson, op) ==
  [id |-> id, projectId |-> project.id, status |-> "QUEUED",
   startedAt |-> FALSE, finishedAt |-> FALSE,
   settingsSnapshotJson |-> settingsJson,
   totalsJson |-> [pagesCrawled |-> 0, issues |-> 0,
                   startedBy |-> IF op = "runNow" THEN "user" ELSE "scheduler"]]

\* prisma.crawlRun.create
RunCreate(a) ==
  /\ api[a].pc = "create"
  /\ Len(crawlRuns) < MaxRuns
  /\ LET id == Len(crawlRuns) + 1
     IN /\ crawlRuns' = Append(crawlRuns,
             QueuedRun(id, api[a].settingsJson, api[a].op))
        /\ api' = [api EXCEPT ![a].pc = "enqueue", ![a].run = id]
  /\ UNCHANGED << crawlSchedules, scheduler >>
  /\ UNCHANGED << scenario, project, pages, issues, links, templates, idSeq,
                  jobs, wk, script, faults, audit >>

\* queueService.addCrawlJob(..., {jobId: crawlRun.id})
RunEnqueue(a) ==
  /\ api[a].pc = "enqueue"
  /\ jobs' = [jobs EXCEPT ![api[a].run] = [state |-> "waiting", attemptsMade |-> 0]]
  /\ api' = [api EXCEPT ![a] = ApiDone]
  /\ UNCHANGED << crawlSchedules, scheduler >>
  /\ UNCHANGED << scenario, project, crawlRuns, pages, issues, links,
                  templates, idSeq, wk, script, faults, audit >>

\* queue.add throws (Redis unavailable): the request fails after the row exists
RunEnqueueThrows(a) ==
  /\ api[a].pc = "enqueue"
  /\ faults < MaxFaults
  /\ faults' = faults + 1
  /\ api' = [api EXCEPT ![a] = ApiDone]
  /\ UNCHANGED << crawlSchedules, scheduler >>
  /\ UNCHANGED << scenario, project, crawlRuns, pages, issues, links,
                  templates, idSeq, jobs, wk, script, audit >>

(***************************************************************************)
(* API: CrawlService.cancel.                                               *)
(***************************************************************************)
\* the project the runs of the model belong to has a sibling in the same
\* organisation that is never crawled
OtherProjectId == "p2"

\* variant: a run can be canceled whatever its status
AlwaysCancellable(crawlRun) == TRUE

\* the "cancellable" check: the status is not DONE, FAILED or CANCELED
Cancellable(crawlRun) == crawlRun.status \notin TerminalStatus

\* the answer to a cancel request that throws: nothing was written
CancelRejected(a, projectId, crawlRunId, exception) ==
  api' = [api EXCEPT ![a] = [ApiDone EXCEPT
            !.op = "cancel", !.projectId = projectId, !.run = crawlRunId,
            !.status = exception]]

\* the lookup of the run and the "cancellable" check; crawlRunId = 0 stands
\* for a request without crawlRunId
CancelFind(a, projectId, crawlRunId) ==
  /\ Arrives(a)
  /\ crawlRunId \in {0} \cup DOMAIN crawlRuns
  /\ LET active == ActiveRuns(projectId)
         found == IF crawlRunId # 0 THEN crawlRunId
                  ELSE IF active = {} THEN 0 ELSE SetMax(active)
     IN IF found = 0
        THEN CancelRejected(a, projectId, crawlRunId, "NotFoundException")
        ELSE IF crawlRuns[found].projectId # projectId
        THEN CancelRejected(a, projectId, crawlRunId, "BadRequestException")
        ELSE IF ~Cancellable(crawlRuns[found])
        THEN CancelRejected(a, projectId, crawlRunId, "BadRequestException")
        ELSE api' = [api EXCEPT ![a] = [ApiIdle EXCEPT
                       !.op = "cancel", !.projectId = projectId, !.run = found,
                       !.status = crawlRuns[found].status,
                       !.pc = IF crawlRuns[found].status = "QUEUED"
                              THEN "removeJob" ELSE "update"]]
  /\ UNCHANGED << crawlSchedules, scheduler >>
  /\ UNCHANGED << scenario, project, crawlRuns, pages, issues, links,
                  templates, idSeq, jobs, wk, script, faults, audit >>

\* queueService.removeJob: getJob, then job.remove().  BullMQ refuses to
\* remove a job that a worker holds the lock of: job.remove() throws.
CancelRemoveJob(a) ==
  /\ api[a].pc = "removeJob"
  /\ LET job == jobs[api[a].run]
     IN IF job.state = "active"
        THEN /\ api' = [api EXCEPT ![a] = ApiDone]
             /\ jobs' = jobs
        ELSE /\ api' = [api EXCEPT ![a].pc = "update"]
             /\ jobs' = [jobs EXCEPT ![api[a].run] = NoJob]
  /\ UNCHANGED << crawlSchedules, scheduler >>
  /\ UNCHANGED << scenario, project, crawlRuns, pages, issues, links,
                  templates, idSeq, wk, script, faults, audit >>

\* prisma.crawlRun.update({status: CANCELED, finishedAt})
CancelUpdate(a) ==
  /\ api[a].pc = "update"
  /\ LET r == api[a].run
     IN /\ crawlRuns' = [crawlRuns EXCEPT ![r].status = "CANCELED",
                                          ![r].finishedAt = TRUE]
        /\ audit' = [audit EXCEPT
             ![r].canceledQueued = @ \/ api[a].status = "QUEUED",
             ![r].canceledInLoop = @ \/ InLoop(r),
             ![r].pagesAtCancel = IF InLoop(r) /\ ~audit[r].canceledInLoop
                                  THEN PagesOf(r) ELSE @,
             ![r].itersSinceCancel = IF @ < 0 THEN 0 ELSE @,
             ![r].pagesSinceCancel = IF @ < 0 THEN 0 ELSE @]
  /\ api' = [api EXCEPT ![a] = ApiDone]
  /\ UNCHANGED << crawlSchedules, scheduler >>
  /\ UNCHANGED << scenario, project, pages, issues, links, templates, idSeq,
                  jobs, wk, script, faults >>

(***************************************************************************)
(* Worker: the BFS loop of runCrawl between two awaits.  The code between  *)
(* awaits runs without interruption, so iterations that `continue` before  *)
(* reaching an await are part of the same step.                            *)
(***************************************************************************)
\* variant: the limit is found one URL late
MaxPagesReachedLate(l) == Cardinality(l.visited) > l.settings.maxPages

\* if (visited.size >= settings.maxPages) break
MaxPagesReached(l) == Cardinality(l.visited) >= l.settings.maxPages

\* variant: no depth is too deep
DepthNeverExceeded(item, l) == FALSE

\* if (depth > settings.maxDepth) continue
DepthExceeded(item, l) == item.depth > l.settings.maxDepth

\* variant: the new item goes to the head of the queue
EnqueueAtHead(queue, item) == <<item>> \o queue

\* queue.push(item)
Enqueue(queue, item) == Append(queue, item)

RECURSIVE LoopFromHead(_), LoopBody(_)
\* while (queue.length > 0) { cancelCheckCounter++ ; every 20th: await ... }
LoopFromHead(l) ==
  IF l.queue = <<>> THEN [l EXCEPT !.pc = "postProcess"]
  ELSE LET l1 == [l EXCEPT !.iters = @ + 1,
                           !.cancelCheckCounter = @ + 1]
       IN IF l1.cancelCheckCounter >= CANCEL_CHECK_INTERVAL
          THEN [l1 EXCEPT !.cancelCheckCounter = 0, !.pc = "cancelCheck"]
          ELSE LoopBody(l1)

\* the iteration from the max-pages check to the fetch
LoopBody(l) ==
  IF MaxPagesReached(l)
  THEN [l EXCEPT !.pc = "postProcess"]                        \* break
  ELSE LET item == Head(l.queue)
           l1 == [l EXCEPT !.queue = Tail(@)]
           normalizedUrl == normalizeUrl(item.url, l.settings.ignoreParams)
       IN IF DepthExceeded(item, l) THEN LoopFromHead(l1)
          ELSE IF normalizedUrl = NULL THEN LoopFromHead(l1)
          ELSE IF normalizedUrl \in l.visited THEN LoopFromHead(l1)
          ELSE [l1 EXCEPT !.visited = @ \cup {normalizedUrl},
                          !.pagesProcessed = @ + 1,
                          !.cur = [url |-> normalizedUrl, depth |-> item.depth],
                          !.fetched = Append(@, [url |-> normalizedUrl,
                                                 depth |-> item.depth]),
                          !.pc = "fetch"]

RECURSIVE ProcessLinks(_, _, _)
\* for (const link of result.links) { ... queue.push({url, depth + 1}) }
ProcessLinks(l, hrefs, domain) ==
  IF hrefs = <<>> THEN l
  ELSE LET normalizedLink ==
             resolveAndNormalize(Head(hrefs), l.cur.url, l.settings.ignoreParams)
           item == [url |-> normalizedLink, depth |-> l.cur.depth + 1]
           skip == \/ normalizedLink = NULL
                   \/ ~isInternalUrl(normalizedLink, domain,
                                     l.settings.includeSubdomains)
                   \/ normalizedLink \in l.visited
       IN ProcessLinks(
            IF skip THEN l
            ELSE [l EXCEPT !.queue = Enqueue(@, item),
                           !.admitted = Append(@, item)],
            Tail(hrefs), domain)

\* history: the run's status at the moment the loop is left for
\* post-processing
Stamp(l, status) ==
  IF l.pc = "postProcess" /\ l.endStatus = "" THEN [l EXCEPT !.endStatus = status]
  ELSE l

Cap(n) == IF n > CANCEL_CHECK_INTERVAL THEN CANCEL_CHECK_INTERVAL + 1 ELSE n

\* history: iterations and page writes of run r since it was first CANCELED
AuditStep(r, iterations, pagesWritten) ==
  [audit EXCEPT
     ![r].itersSinceCancel = IF @ < 0 THEN @ ELSE Cap(@ + iterations),
     ![r].pagesSinceCancel = IF @ < 0 THEN @ ELSE Cap(@ + pagesWritten)]

\* processJob ends: the job completes, or fails and is retried by the queue
\* until JOB_ATTEMPTS attempts were made
JobDone(job) == [state |-> "completed", attemptsMade |-> job.attemptsMade + 1]

JobFailed(job) ==
  [state |-> IF job.attemptsMade + 1 < JOB_ATTEMPTS THEN "waiting" ELSE "failed",
   attemptsMade |-> job.attemptsMade + 1]

(***************************************************************************)
(* Worker: post-processing (totals, global issues, issue summary).         *)
(***************************************************************************)
\* rows in the order findMany returns them (insertion order)
RECURSIVE RowsInOrder(_)
RowsInOrder(S) ==
  IF S = {} THEN <<>>
  ELSE LET m == CHOOSE x \in S : \A y \in S : x.id[2] <= y.id[2]
       IN <<m>> \o RowsInOrder(S \ {m})

\* the keys of a Map / object in insertion order
RECURSIVE DistinctInOrder(_)
DistinctInOrder(s) ==
  IF s = <<>> THEN <<>>
  ELSE LET rest == DistinctInOrder(Front(s))
       IN IF Last(s) \in Range(rest) THEN rest ELSE Append(rest, Last(s))

\* Array.prototype.sort((a, b) => b.count - a.count): stable
RECURSIVE SortByCountDesc(_)
SortByCountDesc(s) ==
  IF s = <<>> THEN <<>>
  ELSE LET sorted == SortByCountDesc(Front(s))
           x == Last(s)
           k == Cardinality({i \in DOMAIN sorted : sorted[i].count >= x.count})
       IN SubSeq(sorted, 1, k) \o <<x>> \o SubSeq(sorted, k + 1, Len(sorted))

Take(s, n) == SubSeq(s, 1, IF Len(s) < n THEN Len(s) ELSE n)

\* variant: the summary replaces the totals instead of being merged in
MergeKeepsUpdateOnly(existing, update) == update

\* {...existing, ...update}
Merge(existing, update) ==
  [k \in DOMAIN existing \cup DOMAIN update |->
     IF k \in DOMAIN update THEN update[k] ELSE existing[k]]

\* pageStatusMap.get(url): the status of the last page row with that URL
PageStatus(r, url) ==
  LET rows == RowsInOrder({p \in PagesOf(r) :
                 p.statusCode # NullInt /\ p.normalizedUrl = url})
  IN IF rows = <<>> THEN NullInt ELSE Last(rows).statusCode

\* variant: only server errors count as broken
BrokenLinksServerErrorsOnly(r) ==
  {l \in LinksOf(r) : /\ l.linkType = "INTERNAL"
                      /\ PageStatus(r, l.toNormalizedUrl) >= 500}

\* the internal links of run r whose target page answered 4xx/5xx
BrokenLinks(r) ==
  {l \in LinksOf(r) : /\ l.linkType = "INTERNAL"
                      /\ PageStatus(r, l.toNormalizedUrl) >= 400}

\* postProcessCrawl: the totals it returns
postProcessCrawl(r) ==
  LET withStatus == {p \in PagesOf(r) : p.statusCode # NullInt}
      broken == RowsInOrder(BrokenLinks(r))
      targets == DistinctInOrder([i \in DOMAIN broken |->
                                    broken[i].toNormalizedUrl])
      errorPages == [i \in DOMAIN targets |->
         [url |-> targets[i],
          statusCode |-> PageStatus(r, targets[i]),
          count |-> Cardinality({j \in DOMAIN broken :
                         broken[j].toNormalizedUrl = targets[i]})]]
  IN [pagesCount |-> Cardinality(PagesOf(r)),
      linksCount |-> Cardinality(LinksOf(r)),
      internalLinksCount |->
        Cardinality({l \in LinksOf(r) : l.linkType = "INTERNAL"}),
      externalLinksCount |->
        Cardinality({l \in LinksOf(r) : l.linkType = "EXTERNAL"}),
      brokenInternalLinksCount |-> Len(broken),
      statusCodeDistribution |->
        [c \in {p.statusCode : p \in withStatus} |->
           Cardinality({p \in withStatus : p.statusCode = c})],
      topErrorPages |-> Take(SortByCountDesc(errorPages), 10)]

\* postProcessCrawl step 3: link.update({isBroken: true, statusCode})
MarkBroken(r) ==
  {IF l \in BrokenLinks(r)
   THEN [l EXCEPT !.isBroken = TRUE,
                  !.statusCode = PageStatus(r, l.toNormalizedUrl)]
   ELSE l : l \in links}

\* detectDuplicateTitles: the groups of pages sharing a title, as the
\* sequences of page rows in findMany order
\* variant: titles are compared with their case
TitleKeyCaseSensitive(p) == Trim(p.title)

\* title.trim().toLowerCase()
TitleKey(p) == StrLower(Trim(p.title))

DuplicateGroups(r) ==
  LET titled == {p \in PagesOf(r) :
                   p.title # NULL /\ Trim(p.title).len > 0}
      rows == RowsInOrder(titled)
      keys == DistinctInOrder([i \in DOMAIN rows |-> TitleKey(rows[i])])
      group(k) == RowsInOrder({p \in titled : TitleKey(p) = k})
      groups == [i \in DOMAIN keys |-> group(keys[i])]
  IN SelectSeq(groups, LAMBDA g : Len(g) >= 2)

\* the issueData array of detectDuplicateTitles
RECURSIVE DuplicateTitleIssues(_)
DuplicateTitleIssues(groups) ==
  IF groups = <<>> THEN <<>>
  ELSE LET g == Head(groups)
           examples == Take([i \in DOMAIN g |-> g[i].url], 5)
       IN [i \in DOMAIN g |->
             [pageId |-> g[i].id, type |-> "DUPLICATE_TITLE",
              severity |-> "MEDIUM",
              evidenceJson |-> [duplicateTitle |-> Trim(g[1].title),
                                count |-> Len(g), examples |-> examples]]]
          \o DuplicateTitleIssues(Tail(groups))

\* issue.createMany: the rows for a sequence of drafts, ids from n + 1 on
IssueRows(r, n, drafts) ==
  {[id |-> <<r, n + i>>, crawlRunId |-> r, pageId |-> drafts[i].pageId,
    type |-> drafts[i].type, severity |-> drafts[i].severity,
    evidenceJson |-> drafts[i].evidenceJson] : i \in DOMAIN drafts}

\* computeIssueSummary
computeIssueSummary(r) ==
  LET rows == RowsInOrder(IssuesOf(r))
      types == DistinctInOrder([i \in DOMAIN rows |-> rows[i].type])
      byType == [t \in Range(types) |->
                   Cardinality({i \in IssuesOf(r) : i.type = t})]
  IN [issueCountTotal |-> Len(rows),
      issueCountByType |-> byType,
      issueCountBySeverity |->
        [v \in {i.severity : i \in IssuesOf(r)} |->
           Cardinality({i \in IssuesOf(r) : i.severity = v})],
      topIssueTypes |->
        Take(SortByCountDesc([i \in DOMAIN types |->
               [type |-> types[i], count |-> byType[types[i]]]]), 10)]

(***************************************************************************)
(* Worker: processJob up to the BFS loop.                                  *)
(***************************************************************************)
\* the worker takes a waiting job of the queue
PickJob(w) ==
  /\ wk[w].pc = "idle"
  /\ \E r \in DOMAIN crawlRuns :
       /\ jobs[r].state = "waiting"
       /\ jobs' = [jobs EXCEPT ![r].state = "active"]
       /\ wk' = [wk EXCEPT ![w] = [WorkerIdle EXCEPT
                   !.pc = "loadRun", !.run = r,
                   !.projectId = crawlRuns[r].projectId]]
  /\ UNCHANGED << crawlSchedules, scheduler >>
  /\ UNCHANGED << scenario, project, crawlRuns, pages, issues, links,
                  templates, idSeq, api, script, faults, audit >>

\* variant: the run is started whatever its status
LoadRunWithoutCheck(w) ==
  /\ wk[w].pc = "loadRun"
  /\ wk' = [wk EXCEPT ![w].pc = "setRunning"]
  /\ UNCHANGED << crawlSchedules, scheduler >>
  /\ UNCHANGED << scenario, project, crawlRuns, pages, issues, links,
                  templates, idSeq, jobs, api, script, faults, audit >>

\* crawlRun.findUnique and the "already canceled" check
LoadRun(w) ==
  /\ wk[w].pc = "loadRun"
  /\ LET r == wk[w].run
     IN IF crawlRuns[r].status = "CANCELED"
        THEN /\ jobs' = [jobs EXCEPT ![r] = JobDone(@)]      \* return
             /\ wk' = [wk EXCEPT ![w] = WorkerIdle]
        ELSE /\ jobs' = jobs
             /\ wk' = [wk EXCEPT ![w].pc = "setRunning"]
  /\ UNCHANGED << crawlSchedules, scheduler >>
  /\ UNCHANGED << scenario, project, crawlRuns, pages, issues, links,
                  templates, idSeq, api, script, faults, audit >>

\* crawlRun.update({status: RUNNING, startedAt})
SetRunning(w) ==
  /\ wk[w].pc = "setRunning"
  /\ LET r == wk[w].run
     IN /\ crawlRuns' = [crawlRuns EXCEPT ![r].status = "RUNNING",
                                          ![r].startedAt = TRUE]
        /\ wk' = [wk EXCEPT ![w].pc = "rcLoad",
                            ![w].totalsAtStart = crawlRuns[r].totalsJson]
  /\ UNCHANGED << crawlSchedules, scheduler >>
  /\ UNCHANGED << scenario, project, pages, issues, links, templates, idSeq,
                  jobs, api, script, faults, audit >>

\* runCrawl: project.findUnique, crawlRun.findUnique, buildCrawlSettings
RcLoad(w) ==
  /\ wk[w].pc = "rcLoad"
  /\ wk' = [wk EXCEPT ![w].pc = "wipeIssues",
                      ![w].settings = buildCrawlSettings(project.settingsJson)]
  /\ UNCHANGED << crawlSchedules, scheduler >>
  /\ UNCHANGED << scenario, project, crawlRuns, pages, issues, links,
                  templates, idSeq, jobs, api, script, faults, audit >>

\* variant: the wipe leaves the Issue rows of the earlier execution
WipeIssuesSkipped(w) ==
  /\ wk[w].pc = "wipeIssues"
  /\ wk' = [wk EXCEPT ![w].pc = "wipeLinks"]
  /\ UNCHANGED << crawlSchedules, scheduler >>
  /\ UNCHANGED << scenario, project, crawlRuns, pages, issues, links,
                  templates, idSeq, jobs, api, script, faults, audit >>

\* prisma.issue.deleteMany({where: {crawlRunId}})
WipeIssues(w) ==
  /\ wk[w].pc = "wipeIssues"
  /\ issues' = issues \ IssuesOf(wk[w].run)
  /\ wk' = [wk EXCEPT ![w].pc = "wipeLinks"]
  /\ UNCHANGED << crawlSchedules, scheduler >>
  /\ UNCHANGED << scenario, project, crawlRuns, pages, links, templates,
                  idSeq, jobs, api, script, faults, audit >>

\* prisma.link.deleteMany({where: {crawlRunId}})
WipeLinks(w) ==
  /\ wk[w].pc = "wipeLinks"
  /\ links' = links \ LinksOf(wk[w].run)
  /\ wk' = [wk EXCEPT ![w].pc = "wipePages"]
  /\ UNCHANGED << crawlSchedules, scheduler >>
  /\ UNCHANGED << scenario, project, crawlRuns, pages, issues, templates,
                  idSeq, jobs, api, script, faults, audit >>

\* ON DELETE SET NULL of Issue.pageId, Link.fromPageId and Page.templateId
SetNull(tbl, column, ids) ==
  {IF x[column] \in ids THEN [x EXCEPT ![column] = NoId] ELSE x : x \in tbl}

\* prisma.page.deleteMany({where: {crawlRunId}}), then the BFS is seeded with
\* the normalized start URL and the loop runs to its first await
WipePages(w) ==
  /\ wk[w].pc = "wipePages"
  /\ LET r == wk[w].run
         l == wk[w]
         gone == {p.id : p \in PagesOf(r)}
         normalizedStart == normalizeUrl(project.startUrl, l.settings.ignoreParams)
         seeded == [l EXCEPT !.queue = <<[url |-> normalizedStart, depth |-> 0]>>,
                             !.admitted = <<[url |-> normalizedStart,
                                             depth |-> 0]>>,
                             !.visited = {}, !.pagesProcessed = 0,
                             !.cancelCheckCounter = 0]
         l2 == IF normalizedStart = NULL
               THEN [l EXCEPT !.pc = "catch", !.error = "Invalid start URL"]
               ELSE Stamp(LoopFromHead(seeded), crawlRuns[r].status)
     IN /\ pages' = pages \ PagesOf(r)
        /\ issues' = SetNull(issues, "pageId", gone)
        /\ links' = SetNull(links, "fromPageId", gone)
        /\ wk' = [wk EXCEPT ![w] = l2]
        /\ audit' = AuditStep(r, l2.iters - l.iters, 0)
  /\ UNCHANGED << crawlSchedules, scheduler >>
  /\ UNCHANGED << scenario, project, crawlRuns, templates, idSeq, jobs, api,
                  script, faults >>

(***************************************************************************)
(* Worker: one URL of the BFS loop.                                        *)
(***************************************************************************)
\* the loop goes on after a step of run r: the next iterations up to the
\* next await
Resume(w, l) ==
  LET r == wk[w].run
      l2 == Stamp(LoopFromHead(l), crawlRuns[r].status)
  IN /\ wk' = [wk EXCEPT ![w] = l2]
     /\ audit' = AuditStep(r, l2.iters - l.iters, 0)

\* await isCrawlCanceled(crawlRunId): return, or go on with this iteration
CancelCheck(w) ==
  /\ wk[w].pc = "cancelCheck"
  /\ LET r == wk[w].run
         l == wk[w]
     IN IF crawlRuns[r].status = "CANCELED"
        THEN wk' = [wk EXCEPT ![w].pc = "recheck",
                              ![w].endStatus = "CANCELED"]
        ELSE wk' = [wk EXCEPT ![w] = Stamp(LoopBody(l), crawlRuns[r].status)]
  /\ UNCHANGED << crawlSchedules, scheduler >>
  /\ UNCHANGED << scenario, project, crawlRuns, pages, issues, links,
                  templates, idSeq, jobs, api, script, faults, audit >>

\* await fetchAndParsePage(normalizedUrl); a fetch error skips the URL
Fetch(w) ==
  /\ wk[w].pc = "fetch"
  /\ LET l == wk[w]
         result == fetchAndParsePage(scenario, l.cur.url)
     IN IF result.error # NULL
        THEN Resume(w, l)
        ELSE /\ wk' = [wk EXCEPT ![w].pc = "createPage", ![w].result = result]
             /\ audit' = audit
  /\ UNCHANGED << crawlSchedules, scheduler >>
  /\ UNCHANGED << scenario, project, crawlRuns, pages, issues, links,
                  templates, idSeq, jobs, api, script, faults >>

\* the Page row of prisma.page.create
PageRow(r, id, l) ==
  [id |-> id, crawlRunId |-> r, url |-> l.cur.url,
   normalizedUrl |-> l.cur.url,
   statusCode |-> l.result.statusCode, contentType |-> l.result.contentType,
   title |-> l.result.title, metaDescription |-> l.result.metaDescription,
   h1Count |-> l.result.h1Count, canonical |-> l.result.canonical,
   robotsMeta |-> l.result.robotsMeta, wordCount |-> l.result.wordCount,
   templateSignatureHash |-> computePageTemplateSignature(l.result),
   templateId |-> NoId]

\* the unique index Page(crawlRunId, normalizedUrl) rejects the row
UniqueViolation(r, normalizedUrl) ==
  \E p \in PagesOf(r) : p.normalizedUrl = normalizedUrl

\* the links of the fetched page are resolved and queued, then the worker
\* sleeps throttleMs or goes on at once
AfterIssues(w, l, pagesWritten) ==
  LET r == wk[w].run
      queued == ProcessLinks(l, l.result.links, project.domain)
      l2 == IF l.settings.throttleMs > 0
            THEN [queued EXCEPT !.pc = "throttle"]
            ELSE Stamp(LoopFromHead(queued), crawlRuns[r].status)
  IN /\ wk' = [wk EXCEPT ![w] = l2]
     /\ audit' = AuditStep(r, l2.iters - l.iters, pagesWritten)

\* await sleep(settings.throttleMs), then the next iterations
Throttle(w) ==
  /\ wk[w].pc = "throttle"
  /\ Resume(w, wk[w])
  /\ UNCHANGED << crawlSchedules, scheduler >>
  /\ UNCHANGED << scenario, project, crawlRuns, pages, issues, links,
                  templates, idSeq, jobs, api, script, faults >>

\* await prisma.page.create, then evaluatePageIssues; a unique violation is
\* caught by the per-URL catch
CreatePage(w) ==
  /\ wk[w].pc = "createPage"
  /\ LET r == wk[w].run
         l == wk[w]
         id == <<r, idSeq[r] + 1>>
         issueDrafts ==
           IF l.result.statusCode # NullInt
           THEN evaluatePageIssues(l.result,
                                   [imagesMissingAlt |-> l.result.imagesMissingAlt])
           ELSE <<>>
     IN IF UniqueViolation(r, l.cur.url)
        THEN /\ Resume(w, [l EXCEPT !.faulted = TRUE])
             /\ UNCHANGED << pages, idSeq >>
        ELSE /\ pages' = pages \cup {PageRow(r, id, l)}
             /\ idSeq' = [idSeq EXCEPT ![r] = @ + 1]
             /\ IF issueDrafts = <<>>
                THEN AfterIssues(w, [l EXCEPT !.pageId = id], 1)
                ELSE /\ wk' = [wk EXCEPT ![w].pc = "createIssues",
                                         ![w].pageId = id,
                                         ![w].drafts = issueDrafts]
                     /\ audit' = AuditStep(r, 0, 1)
  /\ UNCHANGED << crawlSchedules, scheduler >>
  /\ UNCHANGED << scenario, project, crawlRuns, issues, links, templates,
                  jobs, api, script, faults >>

\* await prisma.issue.createMany, then the links
CreateIssues(w) ==
  /\ wk[w].pc = "createIssues"
  /\ LET r == wk[w].run
         l == wk[w]
         data == [i \in DOMAIN l.drafts |->
                    [pageId |-> l.pageId, type |-> l.drafts[i].type,
                     severity |-> l.drafts[i].severity,
                     evidenceJson |-> l.drafts[i].evidenceJson]]
     IN /\ issues' = issues \cup IssueRows(r, idSeq[r], data)
        /\ idSeq' = [idSeq EXCEPT ![r] = @ + Len(data)]
        /\ AfterIssues(w, l, 0)
  /\ UNCHANGED << crawlSchedules, scheduler >>
  /\ UNCHANGED << scenario, project, crawlRuns, pages, links, templates,
                  jobs, api, script, faults >>

\* variant: the loop has no catch of its own, the error reaches processJob
UrlCallFailsRun(w) ==
  /\ wk[w].pc \in {"createPage", "createIssues"}
  /\ faults < MaxFaults
  /\ faults' = faults + 1
  /\ wk' = [wk EXCEPT ![w].pc = "catch", ![w].error = "database error",
                      ![w].faulted = TRUE]
  /\ UNCHANGED << crawlSchedules, scheduler >>
  /\ UNCHANGED << scenario, project, crawlRuns, pages, issues, links,
                  templates, idSeq, jobs, api, script, audit >>

\* page.create or issue.createMany throws: the per-URL catch logs the error
\* and the loop goes on with the next URL
UrlCallThrows(w) ==
  /\ wk[w].pc \in {"createPage", "createIssues"}
  /\ faults < MaxFaults
  /\ faults' = faults + 1
  /\ LET r == wk[w].run
         l == [wk[w] EXCEPT !.faulted = TRUE]
         l2 == Stamp(LoopFromHead(l), crawlRuns[r].status)
     IN /\ wk' = [wk EXCEPT ![w] = l2]
        /\ audit' = [AuditStep(r, l2.iters - l.iters, 0) EXCEPT
             ![r].issuesFailed = IF l.pc = "createIssues"
                                 THEN @ \cup {l.pageId} ELSE @]
  /\ UNCHANGED << crawlSchedules, scheduler >>
  /\ UNCHANGED << scenario, project, crawlRuns, pages, issues, links,
                  templates, idSeq, jobs, api, script >>

(***************************************************************************)
(* Worker: post-processing and the end of processJob.                      *)
(***************************************************************************)
\* totals = await postProcessCrawl(crawlRunId); await saveCrawlTotals(...)
SaveCrawlTotals(w) ==
  /\ wk[w].pc = "postProcess"
  /\ LET r == wk[w].run
     IN /\ links' = MarkBroken(r)
        /\ crawlRuns' = [crawlRuns EXCEPT ![r].totalsJson = postProcessCrawl(r)]
  /\ wk' = [wk EXCEPT ![w].pc = "globalIssues"]
  /\ UNCHANGED << crawlSchedules, scheduler >>
  /\ UNCHANGED << scenario, project, pages, issues, templates, idSeq, jobs,
                  api, script, faults, audit >>

\* await generateGlobalIssues(crawlRunId)
GenerateGlobalIssues(w) ==
  /\ wk[w].pc = "globalIssues"
  /\ LET r == wk[w].run
         issueData == DuplicateTitleIssues(DuplicateGroups(r))
     IN /\ issues' = issues \cup IssueRows(r, idSeq[r], issueData)
        /\ idSeq' = [idSeq EXCEPT ![r] = @ + Len(issueData)]
  /\ wk' = [wk EXCEPT ![w].pc = "saveSummary"]
  /\ UNCHANGED << crawlSchedules, scheduler >>
  /\ UNCHANGED << scenario, project, crawlRuns, pages, links, templates,
                  jobs, api, script, faults, audit >>

\* await computeIssueSummary(crawlRunId); await saveIssueSummary(...)
SaveIssueSummary(w) ==
  /\ wk[w].pc = "saveSummary"
  /\ LET r == wk[w].run
     IN crawlRuns' = [crawlRuns EXCEPT
          ![r].totalsJson = Merge(@, computeIssueSummary(r))]
  /\ wk' = [wk EXCEPT ![w].pc = "recheck"]
  /\ UNCHANGED << crawlSchedules, scheduler >>
  /\ UNCHANGED << scenario, project, pages, issues, links, templates, idSeq,
                  jobs, api, script, faults, audit >>

\* the re-read of the run after runCrawl returned
Recheck(w) ==
  /\ wk[w].pc = "recheck"
  /\ LET r == wk[w].run
     IN IF crawlRuns[r].status = "CANCELED"
        THEN /\ jobs' = [jobs EXCEPT ![r] = JobDone(@)]      \* return
             /\ wk' = [wk EXCEPT ![w] = WorkerIdle]
        ELSE /\ jobs' = jobs
             /\ wk' = [wk EXCEPT ![w].pc = "setDone"]
  /\ UNCHANGED << crawlSchedules, scheduler >>
  /\ UNCHANGED << scenario, project, crawlRuns, pages, issues, links,
                  templates, idSeq, api, script, faults, audit >>

\* crawlRun.update({status: DONE, finishedAt})
SetDone(w) ==
  /\ wk[w].pc = "setDone"
  /\ LET r == wk[w].run
     IN /\ crawlRuns' = [crawlRuns EXCEPT ![r].status = "DONE",
                                          ![r].finishedAt = TRUE]
        /\ jobs' = [jobs EXCEPT ![r] = JobDone(@)]
        \* history: the execution that ended DONE without a swallowed error
        /\ audit' = [audit EXCEPT ![r].cleanDoneAt =
                       IF wk[w].faulted THEN 0 ELSE jobs[r].attemptsMade + 1]
  /\ wk' = [wk EXCEPT ![w] = WorkerIdle]
  /\ UNCHANGED << crawlSchedules, scheduler >>
  /\ UNCHANGED << scenario, project, pages, issues, links, templates, idSeq,
                  api, script, faults >>

\* the positions of processJob inside its try block and outside the
\* per-URL try of the loop
TryPcs == {"rcLoad", "wipeIssues", "wipeLinks", "wipePages", "cancelCheck",
           "postProcess", "globalIssues", "saveSummary", "recheck", "setDone"}

\* a database call of runCrawl or the final status update throws
CallThrows(w) ==
  /\ wk[w].pc \in TryPcs
  /\ faults < MaxFaults
  /\ faults' = faults + 1
  /\ wk' = [wk EXCEPT ![w].pc = "catch", ![w].error = "database error",
                      ![w].faulted = TRUE]
  /\ UNCHANGED << crawlSchedules, scheduler >>
  /\ UNCHANGED << scenario, project, crawlRuns, pages, issues, links,
                  templates, idSeq, jobs, api, script, audit >>

\* variant: the handler marks the run FAILED without recording the message
CatchWithoutMessage(w) ==
  /\ wk[w].pc = "catch"
  /\ LET r == wk[w].run
     IN /\ crawlRuns' = [crawlRuns EXCEPT
             ![r].status = "FAILED", ![r].finishedAt = TRUE]
        /\ jobs' = [jobs EXCEPT ![r] = JobFailed(@)]
  /\ wk' = [wk EXCEPT ![w] = WorkerIdle]
  /\ UNCHANGED << crawlSchedules, scheduler >>
  /\ UNCHANGED << scenario, project, pages, issues, links, templates, idSeq,
                  api, script, faults, audit >>

\* variant: the handler re-throws without touching the run
CatchWithoutUpdate(w) ==
  /\ wk[w].pc = "catch"
  /\ jobs' = [jobs EXCEPT ![wk[w].run] = JobFailed(@)]
  /\ wk' = [wk EXCEPT ![w] = WorkerIdle]
  /\ UNCHANGED << crawlSchedules, scheduler >>
  /\ UNCHANGED << scenario, project, crawlRuns, pages, issues, links,
                  templates, idSeq, api, script, faults, audit >>

\* catch (error): crawlRun.update({status: FAILED, finishedAt,
\* totalsJson: {lastErrorMessage}}); throw error
Catch(w) ==
  /\ wk[w].pc = "catch"
  /\ LET r == wk[w].run
     IN /\ crawlRuns' = [crawlRuns EXCEPT
             ![r].status = "FAILED", ![r].finishedAt = TRUE,
             ![r].totalsJson = [lastErrorMessage |-> wk[w].error]]
        /\ jobs' = [jobs EXCEPT ![r] = JobFailed(@)]
  /\ wk' = [wk EXCEPT ![w] = WorkerIdle]
  /\ UNCHANGED << crawlSchedules, scheduler >>
  /\ UNCHANGED << scenario, project, pages, issues, links, templates, idSeq,
                  api, script, faults, audit >>

\* a database call before the try block throws: the job fails, the run row
\* is not touched
EarlyThrows(w) ==
  /\ wk[w].pc \in {"loadRun", "setRunning"}
  /\ faults < MaxFaults
  /\ faults' = faults + 1
  /\ jobs' = [jobs EXCEPT ![wk[w].run] = JobFailed(@)]
  /\ wk' = [wk EXCEPT ![w] = WorkerIdle]
  /\ UNCHANGED << crawlSchedules, scheduler >>
  /\ UNCHANGED << scenario, project, crawlRuns, pages, issues, links,
                  templates, idSeq, api, script, audit >>

(***************************************************************************)
(* The schema verification script: it creates a test Template for the      *)
(* latest crawl run and deletes it again.                                  *)
(***************************************************************************)
ScriptCreateTemplate ==
  /\ script = NoScript
  /\ crawlRuns # <<>>
  /\ LET r == Len(crawlRuns)
         id == <<r, idSeq[r] + 1>>
     IN /\ templates' = templates \cup
             {[id |-> id, crawlRunId |-> r, name |-> "Test Template",
               signatureHash |-> "test-hash", pageCount |-> 0]}
        /\ idSeq' = [idSeq EXCEPT ![r] = @ + 1]
        /\ script' = [pc |-> "created", template |-> id]
  /\ UNCHANGED << crawlSchedules, scheduler >>
  /\ UNCHANGED << scenario, project, crawlRuns, pages, issues, links, jobs,
                  api, wk, faults, audit >>

ScriptDeleteTemplate ==
  /\ script.pc = "created"
  /\ templates' = {t \in templates : t.id # script.template}
  /\ pages' = SetNull(pages, "templateId", {script.template})
  /\ script' = [pc |-> "done", template |-> NoId]
  /\ UNCHANGED << crawlSchedules, scheduler >>
  /\ UNCHANGED << scenario, project, crawlRuns, issues, links, idSeq, jobs,
                  api, wk, faults, audit >>

(***************************************************************************)
(* The system.                                                             *)
(***************************************************************************)
Next ==
  \/ \E a \in ApiIds : RunNowCheck(a)
  \/ \E a \in ApiIds : RunScheduledCheck(a)
  \/ \E a \in ApiIds : RunCreate(a)
  \/ \E a \in ApiIds : RunEnqueue(a)
  \/ \E a \in ApiIds : RunEnqueueThrows(a)
  \/ \E a \in ApiIds, p \in {ProjectId, OtherProjectId}, r \in 0..MaxRuns :
       CancelFind(a, p, r)
  \/ \E a \in ApiIds : CancelRemoveJob(a)
  \/ \E a \in ApiIds : CancelUpdate(a)
  \/ \E w \in Workers : PickJob(w)
  \/ \E w \in Workers : LoadRun(w)
  \/ \E w \in Workers : SetRunning(w)
  \/ \E w \in Workers : RcLoad(w)
  \/ \E w \in Workers : WipeIssues(w)
  \/ \E w \in Workers : WipeLinks(w)
  \/ \E w \in Workers : WipePages(w)
  \/ \E w \in Workers : CancelCheck(w)
  \/ \E w \in Workers : Fetch(w)
  \/ \E w \in Workers : CreatePage(w)
  \/ \E w \in Workers : CreateIssues(w)
  \/ \E w \in Workers : Throttle(w)
  \/ \E w \in Workers : UrlCallThrows(w)
  \/ \E w \in Workers : SaveCrawlTotals(w)
  \/ \E w \in Workers : GenerateGlobalIssues(w)
  \/ \E w \in Workers : SaveIssueSummary(w)
  \/ \E w \in Workers : Recheck(w)
  \/ \E w \in Workers : SetDone(w)
  \/ \E w \in Workers : CallThrows(w)
  \/ \E w \in Workers : Catch(w)
  \/ \E w \in Workers : EarlyThrows(w)
  \/ ScriptCreateTemplate
  \/ ScriptDeleteTemplate

Spec == Init /\ [][Next]_vars

(***************************************************************************)
(* One queued run: its job is executed (and retried) while cancel requests *)
(* may arrive, on each site and under project settings with small, zero    *)
(* and default limits.                                                     *)
(***************************************************************************)
CrawlScenarios == {"single", "fan", "tree", "flaky"}

\* the maxPages / maxDepth values a project is given
MaxPagesChoices == {0, SmallMaxPages, ProjectOf("single").settingsJson.maxPages}

MaxDepthChoices == {0, SmallMaxDepth, ProjectOf("single").settingsJson.maxDepth}

CrawlInit ==
  /\ scenario \in CrawlScenarios
  /\ \E mp \in MaxPagesChoices, md \in MaxDepthChoices :
       project = [ProjectOf(scenario) EXCEPT
                    !.settingsJson = [@ EXCEPT !.maxPages = mp, !.maxDepth = md]]
  /\ crawlRuns = << QueuedRun(1, project.settingsJson, "runNow") >>
  /\ pages = {}
  /\ issues = {}
  /\ links = {}
  /\ templates = {}
  /\ idSeq = [r \in RunIds |-> 0]
  /\ jobs = [r \in RunIds |->
               IF r = 1 THEN [state |-> "waiting", attemptsMade |-> 0] ELSE NoJob]
  /\ api = [a \in ApiIds |-> IF a = 1 THEN ApiDone ELSE ApiIdle]
  /\ wk = [w \in Workers |-> WorkerIdle]
  /\ script = NoScript
  /\ crawlSchedules = {}
  /\ scheduler = SchedulerIdle
  /\ faults = 0
  /\ audit = [r \in RunIds |-> NoAudit]

CrawlNext ==
  \/ \E a \in ApiIds, p \in {ProjectId, OtherProjectId}, r \in 0..MaxRuns :
       CancelFind(a, p, r)
  \/ \E a \in ApiIds : CancelRemoveJob(a)
  \/ \E a \in ApiIds : CancelUpdate(a)
  \/ \E w \in Workers : PickJob(w)
  \/ \E w \in Workers : LoadRun(w)
  \/ \E w \in Workers : SetRunning(w)
  \/ \E w \in Workers : RcLoad(w)
  \/ \E w \in Workers : WipeIssues(w)
  \/ \E w \in Workers : WipeLinks(w)
  \/ \E w \in Workers : WipePages(w)
  \/ \E w \in Workers : CancelCheck(w)
  \/ \E w \in Workers : Fetch(w)
  \/ \E w \in Workers : CreatePage(w)
  \/ \E w \in Workers : CreateIssues(w)
  \/ \E w \in Workers : Throttle(w)
  \/ \E w \in Workers : UrlCallThrows(w)
  \/ \E w \in Workers : SaveCrawlTotals(w)
  \/ \E w \in Workers : GenerateGlobalIssues(w)
  \/ \E w \in Workers : SaveIssueSummary(w)
  \/ \E w \in Workers : Recheck(w)
  \/ \E w \in Workers : SetDone(w)
  \/ \E w \in Workers : CallThrows(w)
  \/ \E w \in Workers : Catch(w)
  \/ \E w \in Workers : EarlyThrows(w)

CrawlSpec == CrawlInit /\ [][CrawlNext]_vars

(***************************************************************************)
(* Properties.                                                             *)
(***************************************************************************)
AllowedTransitions ==
  { <<"QUEUED", "RUNNING">>, <<"RUNNING", "DONE">>, <<"RUNNING", "FAILED">>,
    <<"RUNNING", "CANCELED">>, <<"QUEUED", "CANCELED">> }

\* C1: a run's status changes only QUEUED -> RUNNING, RUNNING -> DONE,
\* RUNNING -> FAILED, RUNNING -> CANCELED or QUEUED -> CANCELED, so a terminal
\* status never changes, whatever the interleaving of processJob and cancel.
C1_StatusTransitions ==
  [][\A r \in DOMAIN crawlRuns :
       crawlRuns'[r].status # crawlRuns[r].status =>
         <<crawlRuns[r].status, crawlRuns'[r].status>> \in AllowedTransitions]_vars

\* C2: a project has at most one run in status QUEUED or RUNNING.
C2_AtMostOneActiveRun == Cardinality(ActiveRuns(ProjectId)) <= 1

PostPcs == {"postProcess", "globalIssues", "saveSummary"}

\* C3: when the run's status was CANCELED at the moment the BFS loop ended,
\* no post-processing step (totals, global issues, issue summary) executes.
C3_NoPostProcessingWhenCanceled ==
  [][\A w \in Workers :
       (/\ wk[w].pc \in PostPcs
        /\ wk'[w].pc \in {"globalIssues", "saveSummary", "recheck"}
        /\ wk'[w].pc # wk[w].pc)
       => wk[w].endStatus # "CANCELED"]_vars

\* C4: when cancel set the run CANCELED while the worker was in the BFS loop,
\* then at the end of processJob the status is CANCELED, every page that
\* existed at the cancellation still exists and totalsJson is what it was
\* when the run started.
C4_CancelDuringLoopPreserves ==
  [][\A w \in Workers :
       (/\ wk[w].pc # "idle"
        /\ wk'[w].pc = "idle"
        /\ audit[wk[w].run].canceledInLoop)
       => /\ crawlRuns'[wk[w].run].status = "CANCELED"
          /\ audit[wk[w].run].pagesAtCancel \subseteq pages'
          /\ crawlRuns'[wk[w].run].totalsJson = wk[w].totalsAtStart]_vars

\* C5: after a run's status became CANCELED the BFS loop begins at most 20
\* further iterations and persists at most 20 further pages.
C5_CancelLatency ==
  \A r \in RunIds :
    /\ audit[r].itersSinceCancel <= CANCEL_CHECK_INTERVAL
    /\ audit[r].pagesSinceCancel <= CANCEL_CHECK_INTERVAL

\* C6: after cancel completed on a run it had read as QUEUED, the run is
\* CANCELED for good and has no Page, Link or Issue row.
C6_CanceledQueuedStaysEmpty ==
  \A r \in DOMAIN crawlRuns :
    audit[r].canceledQueued =>
      /\ crawlRuns[r].status = "CANCELED"
      /\ PagesOf(r) = {} /\ LinksOf(r) = {} /\ IssuesOf(r) = {}

\* C8: at the first page fetch of an execution no Issue, Link, Page or
\* Template row of the run exists.
C8_WipedBeforeFirstFetch ==
  \A w \in Workers :
    (wk[w].pc = "fetch" /\ wk[w].pagesProcessed = 1) =>
      /\ IssuesOf(wk[w].run) = {} /\ LinksOf(wk[w].run) = {}
      /\ PagesOf(wk[w].run) = {} /\ TemplatesOf(wk[w].run) = {}

\* what a run left in the database, row ids and run id aside
PageContent(r) ==
  {[p EXCEPT !.id = NoId, !.crawlRunId = 0] : p \in PagesOf(r)}

PageUrlOf(r, id) ==
  IF \E p \in PagesOf(r) : p.id = id
  THEN (CHOOSE p \in PagesOf(r) : p.id = id).normalizedUrl
  ELSE NULL

IssueContent(r) ==
  {[type |-> i.type, severity |-> i.severity, evidenceJson |-> i.evidenceJson,
    page |-> PageUrlOf(r, i.pageId)] : i \in IssuesOf(r)}

LinkContent(r) ==
  {[l EXCEPT !.id = NoId, !.crawlRunId = 0,
             !.fromPageId = PageUrlOf(r, l.fromPageId)] : l \in LinksOf(r)}

SameRows(r1, r2) ==
  /\ PageContent(r1) = PageContent(r2)
  /\ IssueContent(r1) = IssueContent(r2)
  /\ LinkContent(r1) = LinkContent(r2)
  /\ Cardinality(PagesOf(r1)) = Cardinality(PagesOf(r2))
  /\ Cardinality(IssuesOf(r1)) = Cardinality(IssuesOf(r2))
  /\ Cardinality(LinksOf(r1)) = Cardinality(LinksOf(r2))

\* C7: a run whose job was executed again and then finished DONE holds the
\* same Page, Link and Issue rows (and as many) as a run of the same project
\* that finished DONE in its first execution.
C7_RetryIdempotent ==
  \A r1, r2 \in DOMAIN crawlRuns :
    (audit[r1].cleanDoneAt >= 2 /\ audit[r2].cleanDoneAt = 1)
      => SameRows(r1, r2)

C7_Witness ==
  \E r1, r2 \in DOMAIN crawlRuns :
    /\ audit[r1].cleanDoneAt >= 2
    /\ audit[r2].cleanDoneAt = 1
    /\ PagesOf(r1) # {} /\ IssuesOf(r1) # {}
    /\ idSeq[r1] > idSeq[r2]

\* C9: when a call inside the try block of processJob has thrown, the next
\* step of the worker sets the run FAILED with finishedAt, stores the message
\* as totalsJson.lastErrorMessage, fails the job (the error is re-thrown to
\* the queue) and deletes no Page, Link, Issue or Template row.
C9_FailureHandling ==
  [][\A w \in Workers :
       (wk[w].error # "" /\ wk'[w] # wk[w]) =>
         LET r == wk[w].run
         IN /\ crawlRuns'[r].status = "FAILED"
            /\ crawlRuns'[r].finishedAt
            /\ "lastErrorMessage" \in DOMAIN crawlRuns'[r].totalsJson
            /\ crawlRuns'[r].totalsJson.lastErrorMessage = wk[w].error
            /\ jobs'[r].attemptsMade = jobs[r].attemptsMade + 1
            /\ jobs'[r].state \in {"waiting", "failed"}
            /\ pages' = pages /\ links' = links
            /\ issues' = issues /\ templates' = templates]_vars

C9_Witness ==
  \E r \in DOMAIN crawlRuns :
    /\ crawlRuns[r].status = "FAILED"
    /\ crawlRuns[r].finishedAt
    /\ crawlRuns[r].totalsJson = [lastErrorMessage |-> "database error"]
    /\ jobs[r].state = "waiting"
    /\ PagesOf(r) # {} /\ IssuesOf(r) # {}

\* C10: no two Page rows of one run have the same normalizedUrl.
C10_UniqueNormalizedUrl ==
  \A p, q \in pages :
    (p.crawlRunId = q.crawlRunId /\ p.normalizedUrl = q.normalizedUrl)
      => p.id = q.id

\* a retry has written the pages of the run again: the rows of the earlier
\* execution are gone
C10_Witness ==
  \E w \in Workers :
    /\ wk[w].pc = "postProcess"
    /\ jobs[wk[w].run].attemptsMade >= 1
    /\ {p \in pages : p.crawlRunId = wk[w].run} # {}
    /\ \A p \in pages : p.crawlRunId = wk[w].run => p.id[2] > 1

\* C13: the Page row of a URL and its page-level Issue rows are committed
\* together or not at all: once the iteration of a URL is over, no Page row
\* exists whose issue write failed.
C13_PageAndIssuesAtomic ==
  \A r \in RunIds :
    \A id \in audit[r].issuesFailed : \A p \in pages : p.id # id

(***************************************************************************)
(* Post-processing alone: the BFS loop of a run has ended and has left     *)
(* Page, Issue and Link rows, drawn here from small sets of tables that    *)
(* the schema admits: up to three pages with a status or none, and links   *)
(* to a page with a row, to a page without one and to an external page.    *)
(***************************************************************************)
\* the URL of the k-th page: the start URL, /a, /b
PostUrl(k) == CASE k = 1 -> RootUrl [] k = 2 -> SiteUrl("a") [] OTHER -> SiteUrl("b")

\* Page.statusCode: an integer or null
PostStatuses == {200, 404, NullInt}

\* what the fetch of the k-th page returned
PostResult(k, statusCode) ==
  [PlaceholderResult(PostUrl(k)) EXCEPT !.statusCode = statusCode]

\* the Page row of the k-th page
PostPage(k, statusCode) ==
  PageRow(1, <<1, k>>, [cur |-> [url |-> PostUrl(k), depth |-> 0],
                        result |-> PostResult(k, statusCode)])

\* the Issue rows the driver wrote for the k-th page
PostIssues(k, statusCode) ==
  LET result == PostResult(k, statusCode)
      drafts == IF statusCode # NullInt
                THEN evaluatePageIssues(result, [imagesMissingAlt |->
                                                   result.imagesMissingAlt])
                ELSE <<>>
  IN IssueRows(1, 10 * k,
               [i \in DOMAIN drafts |->
                  [pageId |-> <<1, k>>, type |-> drafts[i].type,
                   severity |-> drafts[i].severity,
                   evidenceJson |-> drafts[i].evidenceJson]])

\* a Link row as inserted: isBroken false, statusCode null
LinkRow(id, fromPageId, toUrl, linkType) ==
  [id |-> id, crawlRunId |-> 1, fromPageId |-> fromPageId, toUrl |-> toUrl,
   toNormalizedUrl |-> toUrl, linkType |-> linkType, isBroken |-> FALSE,
   statusCode |-> NullInt]

\* the j-th link a table may hold: start page to /a (twice), to /b, to /c
\* (never fetched) and to an external page, and a link to the start page
\* whose source page is gone
PostLink(j) ==
  CASE j = 1 -> LinkRow(<<1, 41>>, <<1, 1>>, SiteUrl("a"), "INTERNAL")
    [] j = 2 -> LinkRow(<<1, 42>>, <<1, 1>>, SiteUrl("a"), "INTERNAL")
    [] j = 3 -> LinkRow(<<1, 43>>, <<1, 1>>, SiteUrl("b"), "INTERNAL")
    [] j = 4 -> LinkRow(<<1, 44>>, <<1, 1>>, SiteUrl("c"), "INTERNAL")
    [] j = 5 -> LinkRow(<<1, 45>>, <<1, 1>>, ExternalUrl, "EXTERNAL")
    [] OTHER -> LinkRow(<<1, 46>>, NoId, RootUrl, "INTERNAL")

PostInit ==
  /\ scenario = "single"
  /\ project = ProjectOf(scenario)
  /\ crawlRuns = << [QueuedRun(1, project.settingsJson, "runNow") EXCEPT
                       !.status = "RUNNING", !.startedAt = TRUE] >>
  /\ \E present \in SUBSET {2, 3} :
       \E st \in [{1} \cup present -> PostStatuses] :
         /\ pages = {PostPage(k, st[k]) : k \in DOMAIN st}
         /\ issues = UNION {PostIssues(k, st[k]) : k \in DOMAIN st}
  /\ \E held \in SUBSET (1..6) : links = {PostLink(j) : j \in held}
  /\ templates = {}
  /\ idSeq = [r \in RunIds |-> IF r = 1 THEN 50 ELSE 0]
  /\ jobs = [r \in RunIds |->
               IF r = 1 THEN [state |-> "active", attemptsMade |-> 0] ELSE NoJob]
  /\ api = [a \in ApiIds |-> IF a = 1 THEN ApiDone ELSE ApiIdle]
  /\ wk = [w \in Workers |->
             IF w = 1
             THEN [WorkerIdle EXCEPT
                     !.pc = "postProcess", !.run = 1, !.projectId = project.id,
                     !.settings = buildCrawlSettings(project.settingsJson),
                     !.visited = {p.normalizedUrl : p \in pages},
                     !.pagesProcessed = Cardinality(pages),
                     !.iters = Cardinality(pages),
                     !.totalsAtStart = crawlRuns[1].totalsJson,
                     !.endStatus = "RUNNING"]
             ELSE WorkerIdle]
  /\ script = NoScript
  /\ crawlSchedules = {}
  /\ scheduler = SchedulerIdle
  /\ faults = 0
  /\ audit = [r \in RunIds |-> NoAudit]

PostNext ==
  \/ \E w \in Workers : SaveCrawlTotals(w)
  \/ \E w \in Workers : GenerateGlobalIssues(w)
  \/ \E w \in Workers : SaveIssueSummary(w)
  \/ \E w \in Workers : Recheck(w)
  \/ \E w \in Workers : SetDone(w)

PostSpec == PostInit /\ [][PostNext]_vars

(***************************************************************************)
(* The link graph of a site, computed from the answers of its pages and    *)
(* not from the steps of the driver.                                       *)
(***************************************************************************)
Settings == buildCrawlSettings(project.settingsJson)

\* the internal pages that the page at url links to
InternalTargets(sc, url) ==
  {t \in {resolveAndNormalize(h, url, Settings.ignoreParams) :
            h \in Range(fetchAndParsePage(sc, url).links)} :
     t # NULL /\ isInternalUrl(t, project.domain, Settings.includeSubdomains)}

RECURSIVE WithinDepth(_, _)
\* the pages at most d links away from the start URL
WithinDepth(sc, d) ==
  IF d = 0 THEN {normalizeUrl(project.startUrl, Settings.ignoreParams)}
  ELSE LET near == WithinDepth(sc, d - 1)
       IN near \cup UNION {InternalTargets(sc, u) : u \in near}

Reachable(sc) == WithinDepth(sc, Settings.maxDepth)

AllFetchesSucceed(sc) ==
  \A u \in Reachable(sc) : fetchAndParsePage(sc, u).error = NULL

NeverCanceled(r) == audit[r].itersSinceCancel < 0

\* the worker has fetched or is fetching the URL it holds
AtUrlPcs == {"fetch", "createPage", "createIssues", "throttle"}

\* C11: a run never admits more than maxPages distinct URLs and never has
\* more than maxPages Page rows (none when maxPages = 0); a run that is not
\* canceled ends DONE once its job completes, and when at least maxPages
\* pages are reachable within maxDepth and every fetch and write succeeds it
\* then has exactly maxPages Page rows.
C11_MaxPagesCap ==
  \A r \in DOMAIN crawlRuns :
    /\ Cardinality(PagesOf(r)) <= Settings.maxPages
    /\ \A w \in Workers :
         (wk[w].run = r /\ wk[w].pc \in LoopPcs \cup PostPcs)
           => Cardinality(wk[w].visited) <= Settings.maxPages
    /\ (jobs[r].state = "completed" /\ NeverCanceled(r))
         => crawlRuns[r].status = "DONE"
    /\ (/\ audit[r].cleanDoneAt > 0
        /\ NeverCanceled(r)
        /\ AllFetchesSucceed(scenario)
        /\ Cardinality(Reachable(scenario)) >= Settings.maxPages)
         => Cardinality(PagesOf(r)) = Settings.maxPages

\* the limit has cut a crawl short: the run is DONE with maxPages pages on a
\* site with more pages in reach
C11_Witness ==
  \E r \in DOMAIN crawlRuns :
    /\ crawlRuns[r].status = "DONE"
    /\ audit[r].cleanDoneAt > 0
    /\ Settings.maxPages = SmallMaxPages
    /\ Cardinality(PagesOf(r)) = SmallMaxPages
    /\ Cardinality(Reachable(scenario)) > SmallMaxPages

\* C12: no URL more than maxDepth links away from the start URL is fetched
\* or persisted as a Page; with maxDepth = 0 the only Page of a run is the
\* start URL's.
C12_MaxDepth ==
  \A r \in DOMAIN crawlRuns :
    /\ \A p \in PagesOf(r) : p.normalizedUrl \in Reachable(scenario)
    /\ \A w \in Workers :
         (wk[w].run = r /\ wk[w].pc \in AtUrlPcs)
           => wk[w].cur.url \in Reachable(scenario)
    /\ Settings.maxDepth = 0 =>
         \A p \in PagesOf(r) :
           p.normalizedUrl = normalizeUrl(project.startUrl, Settings.ignoreParams)

\* a crawl has fetched every page within maxDepth and left deeper pages,
\* which the pages it fetched link to, unfetched
C12_Witness ==
  \E r \in DOMAIN crawlRuns :
    /\ crawlRuns[r].status = "DONE"
    /\ Settings.maxDepth = SmallMaxDepth
    /\ {p.normalizedUrl : p \in PagesOf(r)} = Reachable(scenario)
    /\ WithinDepth(scenario, SmallMaxDepth + 1) # Reachable(scenario)

\* C14: a URL whose fetch returned an error still gets a Page row, so when
\* the loop of an execution without a failed write has ended, every URL it
\* fetched has a Page row.
C14_FetchErrorStillPersisted ==
  \A w \in Workers :
    (wk[w].pc = "postProcess" /\ ~wk[w].faulted) =>
      \A u \in wk[w].visited :
        \E p \in PagesOf(wk[w].run) : p.normalizedUrl = u

\* C15: when the links of a persisted Page have been processed, every
\* occurrence of an href of the page that resolves and normalizes has one
\* Link row of its own with fromPageId the page's id, toNormalizedUrl set and
\* linkType INTERNAL or EXTERNAL by the classification (external links and
\* the page's links to itself included).
C15_LinkRowPerHref ==
  \A w \in Workers :
    wk[w].pc = "throttle" =>
      LET l == wk[w]
          hrefs == l.result.links
          target(i) == resolveAndNormalize(hrefs[i], l.cur.url,
                                           l.settings.ignoreParams)
          resolving == {i \in DOMAIN hrefs : target(i) # NULL}
          rows == {k \in LinksOf(l.run) : k.fromPageId = l.pageId}
          linkType(i) ==
            IF isInternalUrl(target(i), project.domain,
                             l.settings.includeSubdomains)
            THEN "INTERNAL" ELSE "EXTERNAL"
      IN /\ Cardinality(rows) = Cardinality(resolving)
         /\ \A i \in resolving :
              \E k \in rows : /\ k.toNormalizedUrl = target(i)
                              /\ k.linkType = linkType(i)

\* post-processing has marked the links of run r
PostProcessed(r) ==
  \/ crawlRuns[r].status = "DONE"
  \/ \E w \in Workers :
       /\ wk[w].run = r
       /\ \/ wk[w].pc \in {"globalIssues", "saveSummary"}
          \/ /\ wk[w].pc \in {"recheck", "setDone"}
             /\ "pagesCount" \in DOMAIN crawlRuns[r].totalsJson

\* the pages of run r at the target of link k that answered 4xx / 5xx
ErrorTargets(r, k) ==
  {p \in PagesOf(r) : /\ p.normalizedUrl = k.toNormalizedUrl
                       /\ p.statusCode # NullInt
                       /\ p.statusCode >= 400}

\* C16: after postProcessCrawl an INTERNAL Link of the run is broken exactly
\* when a Page of the run at its toNormalizedUrl has statusCode >= 400, and
\* then carries that statusCode; a Link whose target has no Page row, no
\* status or a status below 400 has isBroken = false and statusCode = null.
C16_BrokenLinks ==
  \A r \in DOMAIN crawlRuns :
    PostProcessed(r) =>
      \A k \in LinksOf(r) :
        k.linkType = "INTERNAL" =>
          /\ k.isBroken <=> ErrorTargets(r, k) # {}
          /\ k.isBroken =>
               \E p \in ErrorTargets(r, k) : k.statusCode = p.statusCode
          /\ ~k.isBroken => k.statusCode = NullInt

\* two links to the same 404 page are marked, next to a link to a page that
\* answered 200 and a link to a page that was never fetched
C16_Witness ==
  \E r \in DOMAIN crawlRuns :
    /\ PostProcessed(r)
    /\ \E k1, k2 \in LinksOf(r) :
         /\ k1.id # k2.id
         /\ k1.toNormalizedUrl = k2.toNormalizedUrl
         /\ k1.isBroken /\ k1.statusCode = 404
         /\ k2.isBroken /\ k2.statusCode = 404
    /\ \E k \in LinksOf(r), p \in PagesOf(r) :
         /\ k.linkType = "INTERNAL" /\ ~k.isBroken
         /\ p.normalizedUrl = k.toNormalizedUrl /\ p.statusCode = 200
    /\ \E k \in LinksOf(r) :
         /\ k.linkType = "INTERNAL" /\ ~k.isBroken
         /\ \A p \in PagesOf(r) : p.normalizedUrl # k.toNormalizedUrl

RECURSIVE SumValues(_)
\* the sum of the values of a JSON object of numbers
SumValues(f) ==
  IF DOMAIN f = {} THEN 0
  ELSE LET k == CHOOSE x \in DOMAIN f : TRUE
       IN f[k] + SumValues([x \in DOMAIN f \ {k} |-> f[x]])

C18_DoneTotals ==
  \A r \in DOMAIN crawlRuns :
    crawlRuns[r].status = "DONE" =>
      LET totals == crawlRuns[r].totalsJson
          crawlTotals == postProcessCrawl(r)
      IN /\ DOMAIN crawlTotals \subseteq DOMAIN totals
         /\ \A k \in DOMAIN crawlTotals : totals[k] = crawlTotals[k]
         /\ {"issueCountTotal", "issueCountByType", "issueCountBySeverity",
              "topIssueTypes"} \subseteq DOMAIN totals
         /\ totals.issueCountTotal = Cardinality(IssuesOf(r))
         /\ SumValues(totals.issueCountByType) = totals.issueCountTotal
         /\ SumValues(totals.issueCountBySeverity) = totals.issueCountTotal

\* a DONE run with page-level issues of two severities and DUPLICATE_TITLE
\* issues, all counted
C18_Witness ==
  \E r \in DOMAIN crawlRuns :
    /\ crawlRuns[r].status = "DONE"
    /\ \E i \in IssuesOf(r) : i.type = "DUPLICATE_TITLE"
    /\ \E i \in IssuesOf(r) : i.type # "DUPLICATE_TITLE" /\ i.severity # "MEDIUM"
    /\ "issueCountTotal" \in DOMAIN crawlRuns[r].totalsJson
    /\ crawlRuns[r].totalsJson.issueCountTotal > 2
    /\ crawlRuns[r].totalsJson.pagesCount > 1

\* generateGlobalIssues has run for the rows run r has now
GlobalIssuesDone(r) ==
  \/ crawlRuns[r].status = "DONE"
  \/ \E w \in Workers :
       /\ wk[w].run = r
       /\ \/ wk[w].pc = "saveSummary"
          \/ /\ wk[w].pc \in {"recheck", "setDone"}
             /\ "issueCountTotal" \in DOMAIN crawlRuns[r].totalsJson

\* the pages of run r whose title is that of p up to case and surrounding
\* white space; empty when p has no title
TitleGroup(r, p) ==
  LET titled(q) == q.title # NULL /\ Trim(q.title).len > 0
  IN {q \in PagesOf(r) :
        /\ titled(p) /\ titled(q)
        /\ StrLower(Trim(q.title)) = StrLower(Trim(p.title))}

\* C19: after generateGlobalIssues a Page has exactly one DUPLICATE_TITLE
\* issue, of severity MEDIUM, if another Page of the run has the same
\* non-empty title after trimming and lower-casing, and none otherwise; the
\* evidence count is the size of the title group and the examples are at
\* most 5 URLs of pages of the group.
C19_DuplicateTitles ==
  \A r \in DOMAIN crawlRuns :
    GlobalIssuesDone(r) =>
      \A p \in PagesOf(r) :
        LET group == TitleGroup(r, p)
            dup == {i \in IssuesOf(r) :
                      i.type = "DUPLICATE_TITLE" /\ i.pageId = p.id}
        IN IF Cardinality(group) >= 2
           THEN /\ Cardinality(dup) = 1
                /\ \A i \in dup :
                     /\ i.severity = "MEDIUM"
                     /\ i.evidenceJson.count = Cardinality(group)
                     /\ Len(i.evidenceJson.examples) <= 5
                     /\ Range(i.evidenceJson.examples)
                          \subseteq {q.url : q \in group}
           ELSE dup = {}

\* six pages share a title written in three ways: each has its issue with
\* count 6 and 5 examples, and a page with a title of its own has none
C19_Witness ==
  \E r \in DOMAIN crawlRuns :
    /\ GlobalIssuesDone(r)
    /\ \E p \in PagesOf(r) :
         /\ Cardinality(TitleGroup(r, p)) > 5
         /\ Cardinality({Trim(q.title) : q \in TitleGroup(r, p)}) > 1
         /\ \E i \in IssuesOf(r) :
              /\ i.type = "DUPLICATE_TITLE" /\ i.pageId = p.id
              /\ i.evidenceJson.count > 5
              /\ Len(i.evidenceJson.examples) = 5
    /\ \E p \in PagesOf(r) :
         /\ Cardinality(TitleGroup(r, p)) = 1
         /\ \A i \in IssuesOf(r) :
              i.pageId = p.id => i.type # "DUPLICATE_TITLE"

\* C20: after the post-processing of a run, every distinct non-null
\* templateSignatureHash among its Pages has exactly one Template row of the
\* run, whose pageCount is the number of Pages with that hash and which the
\* templateId of each of those Pages refers to.
C20_TemplateClusters ==
  \A r \in DOMAIN crawlRuns :
    crawlRuns[r].status = "DONE" =>
      \A h \in {p.templateSignatureHash : p \in PagesOf(r)} \ {""} :
        LET members == {p \in PagesOf(r) : p.templateSignatureHash = h}
            cluster == {t \in TemplatesOf(r) : t.signatureHash = h}
        IN /\ Cardinality(cluster) = 1
           /\ \A t \in cluster :
                /\ t.pageCount = Cardinality(members)
                /\ \A p \in members : p.templateId = t.id

(***************************************************************************)
(* A project as it is stored and edited: its start URL is any string the   *)
(* column holds, and updateProject may replace its settings while a run    *)
(* waits in the queue or executes.                                         *)
(***************************************************************************)
\* the strings a start URL is drawn from: what new URL() parses, with
\* paths "/", "/a", "/a/" and "/a//", with no query, one parameter, two
\* parameters in order, out of order next to a tracking parameter, and
\* with names in capitals; and a string that new URL() rejects
RawUrls ==
  { [Url(scheme, BaseDomain, port, path, query, hash) EXCEPT
       !.hostUpper = upper] :
      scheme \in {"https:", "http:", "ftp:"}, upper \in BOOLEAN,
      port \in {"", "443", "80"},
      path \in {<<"">>, <<"a">>, <<"a", "">>, <<"a", "", "">>},
      query \in { <<>>,
                  << <<"a", "1">> >>,
                  << <<"a", "1">>, <<"b", "2">> >>,
                  << <<"b", "2">>, <<"a", "1">>, <<"utm_source", "x">> >>,
                  << <<"B", "2">>, <<"UTM_SOURCE", "x">>, <<"a", "1">> >> },
      hash \in {"", "top"} }
  \cup {BadUrl}

\* ProjectService.updateProject with a dto that carries settingsJson
UpdateProject(a, settingsJson) ==
  /\ Arrives(a)
  /\ project' = [project EXCEPT !.settingsJson = settingsJson]
  /\ api' = [api EXCEPT ![a] = ApiDone]
  /\ UNCHANGED << crawlSchedules, scheduler >>
  /\ UNCHANGED << scenario, crawlRuns, pages, issues, links, templates, idSeq,
                  jobs, wk, script, faults, audit >>

ProjInit ==
  /\ scenario \in {"single", "fan", "tree", "home"}
  \* startUrl and domain are two fields of the dto, validated one by one:
  \* the start URL may be on a subdomain of the domain or on another host
  /\ \E startUrl \in
         IF scenario = "single"
         THEN RawUrls \cup {ExternalUrl,
                            [RootUrl EXCEPT !.host = <<"www">> \o BaseDomain]}
         ELSE {RootUrl} :
       project = [ProjectOf(scenario) EXCEPT !.startUrl = startUrl]
  /\ crawlRuns = << QueuedRun(1, project.settingsJson, "runNow") >>
  /\ pages = {}
  /\ issues = {}
  /\ links = {}
  /\ templates = {}
  /\ idSeq = [r \in RunIds |-> 0]
  /\ jobs = [r \in RunIds |->
               IF r = 1 THEN [state |-> "waiting", attemptsMade |-> 0] ELSE NoJob]
  /\ api = [a \in ApiIds |-> IF a = 1 THEN ApiDone ELSE ApiIdle]
  /\ wk = [w \in Workers |-> WorkerIdle]
  /\ script = NoScript
  /\ crawlSchedules = {}
  /\ scheduler = SchedulerIdle
  /\ faults = 0
  /\ audit = [r \in RunIds |-> NoAudit]

ProjNext ==
  \/ CrawlNext
  \* a dto with smaller limits than the project was created with
  \/ \E a \in ApiIds :
       UpdateProject(a, [maxPages |-> SmallMaxPages, maxDepth |-> SmallMaxDepth])

ProjSpec == ProjInit /\ [][ProjNext]_vars

\* C21: a run executes with the settings of its snapshot, taken from the
\* project when the run was enqueued: once runCrawl has built its settings
\* they are those of crawlRun.settingsSnapshotJson, whatever updates the
\* project has had since.
C21_SettingsFromSnapshot ==
  \A w \in Workers :
    wk[w].pc \in LoopPcs \cup PostPcs =>
      wk[w].settings = buildCrawlSettings(crawlRuns[wk[w].run].settingsSnapshotJson)

\* a string that is no URL, or a URL of another scheme than http and https
InvalidUrl(u) == "bad" \in DOMAIN u \/ u.scheme \notin {"http:", "https:"}

\* C22: when the project's start URL does not normalize, an execution of the
\* job fetches nothing and persists no Page, and the step that ends an
\* execution which reached the normalization leaves the run FAILED with
\* finishedAt set and the job failed.
C22_InvalidStartUrl ==
  [][InvalidUrl(project.startUrl) =>
       /\ pages' = {}
       /\ \A w \in Workers :
            /\ wk'[w].pc \notin AtUrlPcs \cup {"cancelCheck"} \cup PostPcs
            /\ (wk[w].pc = "wipePages" /\ wk'[w].pc # "wipePages")
                 => wk'[w].pc = "catch"
            /\ (wk[w].pc = "catch" /\ wk'[w].pc = "idle") =>
                 /\ crawlRuns'[wk[w].run].status = "FAILED"
                 /\ crawlRuns'[wk[w].run].finishedAt
                 /\ jobs'[wk[w].run].state \in {"waiting", "failed"}]_vars

\* every attempt of the job has failed on the start URL: the run is FAILED
\* with the message of runCrawl and has no page
C22_Witness ==
  \E r \in DOMAIN crawlRuns :
    /\ InvalidUrl(project.startUrl)
    /\ crawlRuns[r].status = "FAILED"
    /\ crawlRuns[r].totalsJson = [lastErrorMessage |-> "Invalid start URL"]
    /\ jobs[r].state = "failed" /\ jobs[r].attemptsMade = JOB_ATTEMPTS
    /\ PagesOf(r) = {}

\* C23: when processJob has loaded a run whose status is CANCELED, it
\* returns at once: the job completes without error, runCrawl is not entered
\* and the step writes nothing, so the run's row and its Page, Issue, Link
\* and Template rows are what they were.
C23_CanceledRunSkipped ==
  [][\A w \in Workers :
       (/\ wk[w].pc = "loadRun"
        /\ crawlRuns[wk[w].run].status = "CANCELED"
        /\ wk'[w] # wk[w]
        /\ faults' = faults)
       => /\ wk'[w].pc = "idle"
          /\ jobs'[wk[w].run].state = "completed"
          /\ crawlRuns' = crawlRuns
          /\ pages' = pages /\ issues' = issues
          /\ links' = links /\ templates' = templates]_vars

\* the job of a run that was canceled before it ever started has completed:
\* the run was never set RUNNING and has no row
C23_Witness ==
  \E r \in DOMAIN crawlRuns :
    /\ crawlRuns[r].status = "CANCELED"
    /\ ~crawlRuns[r].startedAt
    /\ jobs[r].state = "completed"
    /\ PagesOf(r) = {} /\ IssuesOf(r) = {}

\* the ignore lists a project may configure: none, the default tracking
\* parameters, one of the parameters of the start URLs
IgnoreLists == { <<>>, DEFAULT_IGNORE_PARAMS, <<"B">> }

\* C24: normalizeUrl is idempotent: when the start URL normalizes to n under
\* an ignore list, n normalizes to itself under that list.
C24_NormalizeIdempotent ==
  \A ignoreParams \in IgnoreLists :
    LET n == normalizeUrl(project.startUrl, ignoreParams)
    IN n # NULL => normalizeUrl(n, ignoreParams) = n

\* the port a URL is served on
EffectivePort(u) ==
  IF u.port # "" THEN u.port
  ELSE IF u.scheme = "http:" THEN "80" ELSE "443"

\* the parameters of a URL whose names are not in the ignore list
KeptParams(u, ignoreParams) ==
  {u.query[i] : i \in {j \in DOMAIN u.query :
     \A k \in DOMAIN ignoreParams :
       ToLowerCase(u.query[j][1]) # ToLowerCase(ignoreParams[k])}}

\* two http / https URLs differ at most in fragment, in ignored parameters,
\* in an explicit default port, in host letter case and in the order of
\* their parameters
SameUpToNoise(u, v, ignoreParams) ==
  /\ ~InvalidUrl(u) /\ ~InvalidUrl(v)
  /\ u.scheme = v.scheme /\ u.host = v.host /\ u.path = v.path
  /\ EffectivePort(u) = EffectivePort(v)
  /\ KeptParams(u, ignoreParams) = KeptParams(v, ignoreParams)

\* C25: two http / https URLs that differ only in fragment, in parameters of
\* the ignore list, in an explicit default port, in host letter case or in
\* the order of their parameters normalize to the same string: whenever
\* runCrawl is about to normalize its start URL, every such spelling of it
\* normalizes to what the start URL does.
C25_NormalizeCollapses ==
  \A w \in Workers :
    wk[w].pc = "wipePages" =>
      \A ignoreParams \in IgnoreLists \cup {wk[w].settings.ignoreParams} :
        \A v \in RawUrls :
          SameUpToNoise(project.startUrl, v, ignoreParams) =>
            normalizeUrl(v, ignoreParams)
              = normalizeUrl(project.startUrl, ignoreParams)

\* the crawl of a start URL written with capitals, its default port, a
\* fragment, a tracking parameter and its parameters out of order fetches
\* what the plain, ordered spelling of the URL normalizes to
C25_Witness ==
  \E w \in Workers, v \in RawUrls :
    /\ wk[w].pc = "fetch"
    /\ SameUpToNoise(project.startUrl, v, wk[w].settings.ignoreParams)
    /\ project.startUrl.hostUpper /\ ~v.hostUpper
    /\ project.startUrl.port = "443" /\ v.port = ""
    /\ project.startUrl.hash = "top" /\ v.hash = ""
    /\ Len(project.startUrl.query) = 3 /\ Len(v.query) = 2
    /\ normalizeUrl(v, wk[w].settings.ignoreParams) = v
    /\ wk[w].cur.url = v

\* the rule table: the trigger of each rule on the fields of a page, a null
\* string being an empty one and a null number being no number
TableTrigger(type, page, extra) ==
  LET known(n) == n # NullInt
      empty(str) == str = NULL \/ Trim(str).len = 0
  IN CASE type = "STATUS_4XX_5XX" ->
            known(page.statusCode) /\ page.statusCode >= 400
       [] type = "STATUS_3XX_REDIRECT" ->
            known(page.statusCode) /\ page.statusCode >= 300
                                   /\ page.statusCode < 400
       [] type = "REDIRECT_CHAIN_LONG" ->
            "redirectChainJson" \in DOMAIN page /\ Len(page.redirectChainJson) >= 3
       [] type = "MISSING_TITLE" -> empty(page.title)
       [] type = "TITLE_TOO_LONG" -> ~empty(page.title) /\ Trim(page.title).len > 60
       [] type = "TITLE_TOO_SHORT" -> ~empty(page.title) /\ Trim(page.title).len < 10
       [] type = "MISSING_META_DESCRIPTION" -> empty(page.metaDescription)
       [] type = "H1_MISSING" -> page.h1Count = 0
       [] type = "H1_MULTIPLE" -> known(page.h1Count) /\ page.h1Count > 1
       [] type = "CANONICAL_MISSING" -> empty(page.canonical)
       [] type = "ROBOTS_NOINDEX" ->
            page.robotsMeta # NULL /\ IncludesNoindex(page.robotsMeta)
       [] type = "THIN_CONTENT" -> known(page.wordCount) /\ page.wordCount < 150
       [] type = "IMAGES_MISSING_ALT" -> extra.imagesMissingAlt > 0

\* the severity the rule table gives each rule
TableSeverity(type) ==
  CASE type = "STATUS_4XX_5XX" -> "CRITICAL"
    [] type \in {"REDIRECT_CHAIN_LONG", "MISSING_TITLE", "H1_MISSING"} -> "HIGH"
    [] type \in {"STATUS_3XX_REDIRECT", "MISSING_META_DESCRIPTION",
                 "ROBOTS_NOINDEX"} -> "MEDIUM"
    [] OTHER -> "LOW"

\* C26: the drafts evaluatePageIssues returns for a page are exactly one for
\* each rule of the rule table whose trigger holds on the page, with the
\* severity of the rule, and none for a rule whose trigger does not hold.
C26_DraftsMatchRuleTable ==
  \A w \in Workers :
    wk[w].pc = "createIssues" =>
      LET page == wk[w].result
          extra == [imagesMissingAlt |-> page.imagesMissingAlt]
          drafts == wk[w].drafts
      IN \A type \in Range(RULES) :
           LET ofType == {i \in DOMAIN drafts : drafts[i].type = type}
           IN /\ Cardinality(ofType) =
                   IF TableTrigger(type, page, extra) THEN 1 ELSE 0
              /\ \A i \in ofType : drafts[i].severity = TableSeverity(type)

\* C27: on the site of one clean HTML page titled "Home", a run that has
\* completed without a failed call has exactly one Page, with status 200, no
\* Link, no Issue, and totals with pagesCount = 1 and statusCodeDistribution
\* = {"200": 1}.
C27_SinglePageClean ==
  \A r \in DOMAIN crawlRuns :
    (scenario = "home" /\ audit[r].cleanDoneAt > 0) =>
      /\ Cardinality(PagesOf(r)) = 1
      /\ \A p \in PagesOf(r) : p.statusCode = 200
      /\ LinksOf(r) = {}
      /\ IssuesOf(r) = {}
      /\ crawlRuns[r].totalsJson.pagesCount = 1
      /\ crawlRuns[r].totalsJson.statusCodeDistribution = (200 :> 1)

(***************************************************************************)
(* Crawl schedules: the schedule of the project is edited through the API  *)
(* while the cron tick of SchedulerService looks for due schedules,        *)
(* triggers a scheduled run and moves the schedule on.  A date is "null",  *)
(* a time not yet reached ("future") or a time reached ("past").           *)
(***************************************************************************)
\* ScheduleService.calculateNextRunAt: now + 24 hours, now + 7 days, or null
calculateNextRunAt(frequency) ==
  IF frequency \in {"DAILY", "WEEKLY"} THEN "future" ELSE "null"

\* ScheduleService.updateSchedule: crawlSchedule.upsert
UpdateSchedule(enabled, frequency) ==
  /\ LET nextRunAt == IF enabled THEN calculateNextRunAt(frequency) ELSE "null"
         existing == {c \in crawlSchedules : c.projectId = project.id}
     IN crawlSchedules' =
          IF existing = {}
          THEN crawlSchedules \cup
                 {[projectId |-> project.id, enabled |-> enabled,
                   frequency |-> frequency, nextRunAt |-> nextRunAt,
                   lastRunAt |-> "null"]}
          ELSE {IF c \in existing
                THEN [c EXCEPT !.enabled = enabled, !.frequency = frequency,
                               !.nextRunAt = nextRunAt]
                ELSE c : c \in crawlSchedules}
  /\ UNCHANGED << scenario, project, crawlRuns, pages, issues, links,
                  templates, idSeq, jobs, api, wk, script, faults, audit,
                  scheduler >>

\* the clock reaches the nextRunAt of a schedule
TimePasses ==
  /\ \E c \in crawlSchedules : c.nextRunAt = "future"
  /\ crawlSchedules' = {IF c.nextRunAt = "future"
                        THEN [c EXCEPT !.nextRunAt = "past"] ELSE c :
                        c \in crawlSchedules}
  /\ UNCHANGED << scenario, project, crawlRuns, pages, issues, links,
                  templates, idSeq, jobs, api, wk, script, faults, audit,
                  scheduler >>

\* variant: an invocation that ends leaves isRunning as it is
TickOverKeepsFlag(t) ==
  [scheduler EXCEPT !.tick[t] = SchedulerIdle.tick[t]]

\* finally { this.isRunning = false }: the invocation returns
TickOver(t) ==
  [scheduler EXCEPT !.isRunning = FALSE, !.tick[t] = SchedulerIdle.tick[t]]

\* the cron fires handleScheduledCrawls: the isRunning guard, checked and
\* set without an await in between
TickStart(t) ==
  /\ scheduler.tick[t].pc = "idle"
  /\ scheduler' = IF scheduler.isRunning
                  THEN [scheduler EXCEPT !.skipped = TRUE]
                  ELSE [scheduler EXCEPT !.isRunning = TRUE,
                                         !.tick[t].pc = "find"]
  /\ UNCHANGED << scenario, project, crawlRuns, pages, issues, links,
                  templates, idSeq, jobs, api, wk, script, faults, audit,
                  crawlSchedules >>

\* findMany({enabled: true, nextRunAt <= now}); a tick that finds nothing
\* due returns
TickFind(t) ==
  /\ scheduler.tick[t].pc = "find"
  /\ scheduler' =
       IF \E c \in crawlSchedules :
            c.projectId = project.id /\ c.enabled /\ c.nextRunAt = "past"
       THEN [scheduler EXCEPT !.tick[t].pc = "hasActive"]
       ELSE TickOver(t)
  /\ UNCHANGED << scenario, project, crawlRuns, pages, issues, links,
                  templates, idSeq, jobs, api, wk, script, faults, audit,
                  crawlSchedules >>

\* processDueSchedule: await crawlService.hasActiveCrawl(projectId)
TickHasActive(t) ==
  /\ scheduler.tick[t].pc = "hasActive"
  /\ scheduler' = [scheduler EXCEPT
                     !.tick[t].pc = IF ActiveRuns(project.id) # {}
                                    THEN "markFind" ELSE "runScheduled"]
  /\ UNCHANGED << scenario, project, crawlRuns, pages, issues, links,
                  templates, idSeq, jobs, api, wk, script, faults, audit,
                  crawlSchedules >>

\* processDueSchedule: await crawlService.runScheduled(projectId), which
\* returns null when a run is active and creates and enqueues a run otherwise
TickRunScheduled(t) ==
  /\ scheduler.tick[t].pc = "runScheduled"
  /\ ActiveRuns(project.id) # {} \/ Len(crawlRuns) < MaxRuns
  /\ IF ActiveRuns(project.id) # {}
     THEN UNCHANGED << crawlRuns, jobs >>
     ELSE LET id == Len(crawlRuns) + 1
          IN /\ crawlRuns' = Append(crawlRuns,
                  QueuedRun(id, project.settingsJson, "runScheduled"))
             /\ jobs' = [jobs EXCEPT
                  ![id] = [state |-> "waiting", attemptsMade |-> 0]]
  /\ scheduler' = [scheduler EXCEPT !.tick[t].pc = "markFind"]
  /\ UNCHANGED << scenario, project, pages, issues, links, templates, idSeq,
                  api, wk, script, faults, audit, crawlSchedules >>

\* markScheduleRan: crawlSchedule.findUnique, calculateNextRunAt of the
\* frequency it read; without a schedule it returns and the tick is over
TickMarkFind(t) ==
  /\ scheduler.tick[t].pc = "markFind"
  /\ LET found == {c \in crawlSchedules : c.projectId = project.id}
     IN scheduler' =
          IF found = {} THEN TickOver(t)
          ELSE [scheduler EXCEPT
                  !.tick[t] = [pc |-> "markUpdate",
                               frequency |-> (CHOOSE c \in found : TRUE).frequency]]
  /\ UNCHANGED << scenario, project, crawlRuns, pages, issues, links,
                  templates, idSeq, jobs, api, wk, script, faults, audit,
                  crawlSchedules >>

\* markScheduleRan: crawlSchedule.update({lastRunAt: now, nextRunAt}); the
\* tick is over
TickMarkUpdate(t) ==
  /\ scheduler.tick[t].pc = "markUpdate"
  /\ crawlSchedules' =
       {IF c.projectId = project.id
        THEN [c EXCEPT !.lastRunAt = "past",
                       !.nextRunAt =
                         calculateNextRunAt(scheduler.tick[t].frequency)]
        ELSE c : c \in crawlSchedules}
  /\ scheduler' = TickOver(t)
  /\ UNCHANGED << scenario, project, crawlRuns, pages, issues, links,
                  templates, idSeq, jobs, api, wk, script, faults, audit >>

\* a database call of the tick throws: findMany (the outer catch) or a call
\* of processDueSchedule (the catch inside the loop over the due schedules,
\* of which the project has one); the error is logged, then finally
TickThrows(t) ==
  /\ scheduler.tick[t].pc # "idle"
  /\ faults < MaxFaults
  /\ faults' = faults + 1
  /\ scheduler' = TickOver(t)
  /\ UNCHANGED << scenario, project, crawlRuns, pages, issues, links,
                  templates, idSeq, jobs, api, wk, script, audit,
                  crawlSchedules >>

SchedNext ==
  \/ \E enabled \in BOOLEAN, frequency \in {"MANUAL", "DAILY", "WEEKLY"} :
       UpdateSchedule(enabled, frequency)
  \/ TimePasses
  \/ \E t \in Ticks : TickStart(t)
  \/ \E t \in Ticks : TickFind(t)
  \/ \E t \in Ticks : TickHasActive(t)
  \/ \E t \in Ticks : TickRunScheduled(t)
  \/ \E t \in Ticks : TickMarkFind(t)
  \/ \E t \in Ticks : TickMarkUpdate(t)
  \/ \E t \in Ticks : TickThrows(t)
  \/ \E a \in ApiIds, p \in {ProjectId, OtherProjectId}, r \in 0..MaxRuns :
       CancelFind(a, p, r)
  \/ \E a \in ApiIds : CancelRemoveJob(a)
  \/ \E a \in ApiIds : CancelUpdate(a)

SchedSpec == Init /\ [][SchedNext]_vars

\* C28: a CrawlSchedule that is disabled or whose frequency is MANUAL has
\* nextRunAt = null.
C28_IdleScheduleHasNoNextRun ==
  \A c \in crawlSchedules :
    (~c.enabled \/ c.frequency = "MANUAL") => c.nextRunAt = "null"

\* C29: a cancel request is rejected and writes nothing (no run's status or
\* finishedAt, no queue job) when it names no run and the project has no
\* QUEUED or RUNNING run (NotFoundException), when the run it names belongs
\* to another project (BadRequestException) and when the run it names is
\* DONE, FAILED or CANCELED (BadRequestException); a request that is not
\* rejected is about a QUEUED or RUNNING run of its project.
C29_CancelRejections ==
  [][\A a \in ApiIds :
       (api[a].pc = "idle" /\ api'[a].op = "cancel") =>
         LET req == api'[a]
         IN IF req.pc = "done"
            THEN /\ crawlRuns' = crawlRuns /\ jobs' = jobs
                 /\ pages' = pages /\ issues' = issues /\ links' = links
                 /\ IF req.run = 0
                    THEN /\ ActiveRuns(req.projectId) = {}
                         /\ req.status = "NotFoundException"
                    ELSE /\ req.status = "BadRequestException"
                         /\ \/ crawlRuns[req.run].projectId # req.projectId
                            \/ crawlRuns[req.run].status \in TerminalStatus
            ELSE /\ crawlRuns[req.run].projectId = req.projectId
                 /\ crawlRuns[req.run].status \in {"QUEUED", "RUNNING"}]_vars

\* a cancel request that named a DONE run was rejected: the run is DONE with
\* its pages and its job is completed
C29_Witness ==
  \E a \in ApiIds :
    /\ api[a].op = "cancel" /\ api[a].pc = "done"
    /\ api[a].status = "BadRequestException"
    /\ api[a].run \in DOMAIN crawlRuns
    /\ api[a].projectId = crawlRuns[api[a].run].projectId
    /\ crawlRuns[api[a].run].status = "DONE"
    /\ jobs[api[a].run].state = "completed"
    /\ PagesOf(api[a].run) # {}

\* C30: within an execution of runCrawl a normalized URL enters the frontier
\* at most once: every URL in the queue is already in the visited set, and no
\* two entries of the queue hold the same URL.
C30_FrontierAdmitsOnce ==
  \A w \in Workers :
    wk[w].pc \in LoopPcs =>
      LET queue == wk[w].queue
      IN /\ \A i \in DOMAIN queue : queue[i].url \in wk[w].visited
         /\ \A i, j \in DOMAIN queue : queue[i].url = queue[j].url => i = j

(***************************************************************************)
(* The visit order of a site, computed from the answers of its pages: the  *)
(* breadth-first order in which pages are first discovered.                *)
(***************************************************************************)
RECURSIVE Discover(_, _, _, _)
\* order, extended by the internal pages among hrefs that it does not hold
\* yet, in the order of hrefs
Discover(sc, order, hrefs, page) ==
  IF hrefs = <<>> THEN order
  ELSE LET t == resolveAndNormalize(Head(hrefs), page.url, Settings.ignoreParams)
           known == \E i \in DOMAIN order : order[i].url = t
           new == /\ t # NULL
                  /\ isInternalUrl(t, project.domain, Settings.includeSubdomains)
                  /\ ~known
                  /\ page.depth + 1 <= Settings.maxDepth
       IN Discover(sc,
                   IF new THEN Append(order, [url |-> t, depth |-> page.depth + 1])
                   ELSE order,
                   Tail(hrefs), page)

RECURSIVE BfsFrom(_, _, _)
BfsFrom(sc, order, i) ==
  IF i > Len(order) THEN order
  ELSE BfsFrom(sc,
               Discover(sc, order, fetchAndParsePage(sc, order[i].url).links,
                        order[i]),
               i + 1)

BfsOrder(sc) ==
  BfsFrom(sc, <<[url |-> normalizeUrl(project.startUrl, Settings.ignoreParams),
                 depth |-> 0]>>, 1)

\* the position of the first item of s with the URL u
FirstIndex(s, u) ==
  CHOOSE i \in DOMAIN s : s[i].url = u /\ \A j \in 1..(i - 1) : s[j].url # u

\* C31: URLs are fetched in the order in which they were enqueued: the queue
\* is the tail of the admissions not yet dequeued, every fetched URL was
\* admitted and URLs are fetched in the order of their first admission, the
\* depths of successively fetched pages never decrease, and an execution in
\* which no database call threw fetches the pages in the breadth-first
\* discovery order of the site.
C31_FifoVisitOrder ==
  \A w \in Workers :
    wk[w].pc \in LoopPcs \cup PostPcs =>
      LET l == wk[w]
          n == Len(l.admitted)
      IN /\ \E k \in 0..n : l.queue = SubSeq(l.admitted, k + 1, n)
         /\ \A i \in DOMAIN l.fetched :
              \E j \in DOMAIN l.admitted : l.admitted[j] = l.fetched[i]
         /\ \A i, j \in DOMAIN l.fetched :
              i < j =>
                /\ l.fetched[i].depth <= l.fetched[j].depth
                /\ FirstIndex(l.admitted, l.fetched[i].url)
                     < FirstIndex(l.admitted, l.fetched[j].url)
         /\ ~l.faulted =>
              /\ Len(l.fetched) <= Len(BfsOrder(scenario))
              /\ l.fetched = SubSeq(BfsOrder(scenario), 1, Len(l.fetched))

\* an execution has fetched the eight pages of the "tree" site, through
\* duplicate admissions, in the order / /a /b /c /d /e /f /g
C31_Witness ==
  \E w \in Workers :
    /\ wk[w].pc \in PostPcs
    /\ scenario = "tree"
    /\ ~wk[w].faulted
    /\ Len(wk[w].fetched) = 8
    /\ Len(wk[w].admitted) > 8
    /\ wk[w].fetched[4] = [url |-> SiteUrl("c"), depth |-> 2]
    /\ wk[w].fetched[8] = [url |-> SiteUrl("g"), depth |-> 3]

(***************************************************************************)
(* The execution of a job under the scheduling of the worker process: an   *)
(* await that can return does return, so the worker goes on with its next  *)
(* step.  Thrown calls and cancel requests may happen but need not.        *)
(***************************************************************************)
\* the next step of processJob when the call it waits for returns
WorkerStep(w) ==
  \/ LoadRun(w)
  \/ SetRunning(w)
  \/ RcLoad(w)
  \/ WipeIssues(w)
  \/ WipeLinks(w)
  \/ WipePages(w)
  \/ CancelCheck(w)
  \/ Fetch(w)
  \/ CreateIssues(w)
  \/ Throttle(w)
  \/ SaveCrawlTotals(w)
  \/ Recheck(w)
  \/ SetDone(w)
  \/ Catch(w)

\* the positions of page.create, generateGlobalIssues and saveIssueSummary:
\* the step of each is enabled exactly at its position and leaves it, so
\* weak fairness of the step is that the worker is again and again elsewhere
ComputePcs == {"createPage", "globalIssues", "saveSummary"}

LiveSpec ==
  /\ CrawlInit
  /\ [][CrawlNext]_vars
  /\ \A w \in Workers :
       /\ WF_vars(WorkerStep(w))
       /\ []<>(wk[w].pc \notin ComputePcs)

\* C32: on every site, with cycles and self-links, and under every maxPages
\* and maxDepth, an execution that has entered runCrawl leaves the BFS loop
\* and ends, and when it ends the run is DONE, FAILED or CANCELED.
C32_ExecutionTerminates ==
  \A w \in Workers :
    (wk[w].pc = "rcLoad") ~>
      (wk[w].pc = "idle" /\ crawlRuns[1].status \in TerminalStatus)

\* the site with the cycle / -> /b -> /e -> / and the self-link of / was
\* crawled to its end: the job completed with the eight pages and DONE
C32_Witness ==
  /\ scenario = "tree"
  /\ jobs[1].state = "completed"
  /\ crawlRuns[1].status = "DONE"
  /\ Cardinality(PagesOf(1)) = 8
  /\ \A w \in Workers : wk[w].pc = "idle"

\* the rows of tbl whose column refers to a Page: each names a Page row of
\* its own run in pgs
RefersToPages(tbl, column, pgs) ==
  \A x \in tbl :
    x[column] # NoId =>
      \E p \in pgs : p.id = x[column] /\ p.crawlRunId = x.crawlRunId

\* C33: after every step, the wipe of a retry included, every Issue with a
\* pageId and every Link with a fromPageId refers to a Page row of the same
\* run; a row that refers to a Page is written when the Page exists, and a
\* Page is deleted when no Issue or Link refers to it any more.
C33_PageBeforeAndAfterChildren ==
  [][LET ids(pgs) == {p.id : p \in pgs}
         deleted == ids(pages) \ ids(pages')
     IN /\ RefersToPages(issues', "pageId", pages')
        /\ RefersToPages(links', "fromPageId", pages')
        /\ RefersToPages(issues' \ issues, "pageId", pages)
        /\ RefersToPages(links' \ links, "fromPageId", pages)
        /\ \A x \in issues : x.pageId \notin deleted
        /\ \A x \in links : x.fromPageId \notin deleted]_vars

\* the wipe of a retry between its deletes: the Issues of the failed
\* execution are gone and its Pages are still there, while the Issues of an
\* earlier run still refer to that run's Pages
C33_Witness ==
  \E w \in Workers :
    LET r == wk[w].run
    IN /\ wk[w].pc \in {"wipeLinks", "wipePages"}
       /\ jobs[r].attemptsMade >= 1
       /\ PagesOf(r) # {}
       /\ IssuesOf(r) = {}
       /\ \E x \in issues : x.pageId # NoId /\ x.crawlRunId # r

\* C34: when page.create or issue.createMany of one URL throws, the step
\* changes no CrawlRun, fails no job and does not reach the handler of
\* processJob: the worker stays in the loop with the frontier it had, goes on
\* with the next URL of it that is to be fetched, or leaves the loop for
\* post-processing when none is.
C34_UrlErrorIsSwallowed ==
  [][\A w \in Workers :
       (wk[w].pc \in {"createPage", "createIssues"} /\ faults' # faults) =>
         LET l == wk[w]
             m == wk'[w]
             n == Len(l.queue)
             taken == n - Len(m.queue)
         IN /\ crawlRuns' = crawlRuns
            /\ jobs' = jobs
            /\ pages' = pages /\ issues' = issues
            /\ m.error = ""
            /\ m.pc \in {"cancelCheck", "fetch", "postProcess"}
            /\ l.visited \subseteq m.visited
            /\ taken >= 0
            /\ m.queue = SubSeq(l.queue, taken + 1, n)
            /\ m.pc = "fetch" =>
                 /\ taken >= 1
                 /\ m.cur = l.queue[taken]
                 /\ m.cur.url \notin l.visited
            /\ (m.pc = "postProcess" /\ m.queue # <<>>) =>
                 Cardinality(m.visited) >= m.settings.maxPages]_vars

\* page.create threw for /a of the "tree" site in the only execution of the
\* run: /b and the pages behind it were still crawled and the run is DONE
C34_Witness ==
  /\ scenario = "tree"
  /\ faults = 1
  /\ crawlRuns[1].status = "DONE"
  /\ jobs[1] = [state |-> "completed", attemptsMade |-> 1]
  /\ audit[1].cleanDoneAt = 0
  /\ {p.url : p \in PagesOf(1)} =
       {RootUrl, SiteUrl("b"), SiteUrl("c"), SiteUrl("e"), SiteUrl("f"),
        SiteUrl("g")}

\* C35: every Page row has a URL that isInternalUrl classifies as internal to
\* project.domain under the includeSubdomains setting of the crawl, the Page
\* of the start URL included.
C35_OnlyInternalPages ==
  \A p \in pages :
    isInternalUrl(p.url, project.domain, Settings.includeSubdomains)

\* C36: the URL that normalizeUrl returns for a start URL has a path that is
\* "/" or does not end with a slash, with and without a query string.
C36_NoTrailingSlash ==
  \A ignoreParams \in IgnoreLists :
    LET n == normalizeUrl(project.startUrl, ignoreParams)
    IN n # NULL => (n.path = <<"">> \/ Last(n.path) # "")

\* the lexicographic order of the URLs https://a.test/, /a, /b, /c, ...: the
\* URLs of a site differ in their one path segment only
UrlBefore(u, v) ==
  LET rank(x) == CASE x.path = <<"">> -> 0
                   [] x.path = <<"a">> -> 1
                   [] x.path = <<"b">> -> 2
                   [] OTHER -> 3
  IN rank(u) < rank(v)

\* the number of INTERNAL links of run r that point to url
InLinks(r, url) ==
  Cardinality({k \in LinksOf(r) :
                 k.linkType = "INTERNAL" /\ k.toNormalizedUrl = url})

C38_QueuedRunHasJob ==
  (\A a \in ApiIds : api[a].pc \in {"idle", "done"}) =>
    \A r \in DOMAIN crawlRuns :
      crawlRuns[r].status = "QUEUED" => jobs[r].state \in {"waiting", "active"}

\* C39: at most one invocation of handleScheduledCrawls is past the
\* isRunning guard, and isRunning is true exactly while one is: it is false
\* whenever none is in progress, after an error and after the early return.
C39_OneTickAtATime ==
  LET inProgress == {t \in Ticks : scheduler.tick[t].pc # "idle"}
  IN /\ Cardinality(inProgress) <= 1
     /\ scheduler.isRunning <=> inProgress # {}

\* a tick that overlapped another was turned away and a call of a tick has
\* thrown; a tick has since moved the schedule on, a run was started by the
\* scheduler, and no tick is in progress with isRunning false
C39_Witness ==
  /\ scheduler.skipped
  /\ faults = 1
  /\ ~scheduler.isRunning
  /\ \A t \in Ticks : scheduler.tick[t].pc = "idle"
  /\ \E c \in crawlSchedules : c.lastRunAt = "past"
  /\ crawlRuns # <<>>

\* C40: the step that makes a run FAILED stores lastErrorMessage in its
\* totals and leaves every other key of the totals as it was: the keys set
\* when the run was created, the crawl totals and the issue summary.
C40_FailureKeepsTotals ==
  [][\A r \in DOMAIN crawlRuns :
       (crawlRuns[r].status # "FAILED" /\ crawlRuns'[r].status = "FAILED") =>
         LET before == crawlRuns[r].totalsJson
             after == crawlRuns'[r].totalsJson
         IN /\ "lastErrorMessage" \in DOMAIN after
            /\ \A k \in DOMAIN before \ {"lastErrorMessage"} :
                 k \in DOMAIN after /\ after[k] = before[k]]_vars

====
